---- MODULE Spec2Model ----
(***************************************************************************)
(* The event-manager backend: the token codec (config.create_access_token  *)
(* / decode_token and their AuthService twins, over python-jose's          *)
(* jwt.encode / jwt.decode), the password hasher (passlib's bcrypt), the   *)
(* two identity gates of api/dependencies.py, and the handlers of          *)
(* api/auth, api/users, api/events, api/category and api/locations.        *)
(*                                                                         *)
(* Time is counted in ticks, TicksPerSec ticks to the second, because the  *)
(* code reads datetime.utcnow() (sub-second) while every time claim of a   *)
(* token is a whole number of seconds.                                     *)
(***************************************************************************)
EXTENDS Integers, Sequences, FiniteSets, TLC

VARIABLES clock, users, resp, last,
          categories, locations, events, likes, registrations, changed, tasks

\* the tables behind the event endpoints
eventVars == <<categories, locations, events, likes, registrations>>

vars == <<clock, users, resp, last, eventVars, changed, tasks>>

----------------------------------------------------------------------------
(* Bounds of the model *)

\* resolution of the wall clock: ticks per second
TicksPerSec == 2
\* ticks the clock may advance one by one after each long sleep
MaxPhase == 4
\* number of long sleeps (one token lifetime each)
MaxSleeps == 1
\* ticks that may pass between two reads of the clock inside one call
MaxDrift == 1
\* rows the tables events and locations may grow to
MaxEvents == 2
MaxLocations == 2
\* requests that may be in progress at the same time
MaxTasks == 2

----------------------------------------------------------------------------
(* Configuration *)

ACCESS_TOKEN_EXPIRE_MINUTES == 1440
SECRET_KEY == "your-secret-key-change-this-in-production"
OtherKey == "some-other-key"
Keys == {SECRET_KEY, OtherKey}

\* timedelta(minutes = m) in ticks
Minutes(m) == m * 60 * TicksPerSec

----------------------------------------------------------------------------
(* Input domains *)

Emails == {"a@x.com", "b@x.com"}

\* a str is the sequence of its characters; NUL is the character U+0000
NUL == "NUL"
Digits == {"0", "1", "2", "3", "4", "5", "6", "7", "8", "9"}
Chars(v) == {v[i] : i \in 1..Len(v)}
Rep(c, n) == [i \in 1..n |-> c]

\* bcrypt hashes the first 72 bytes of a secret
BcryptMaxBytes == 72

Secret123 == <<"S", "e", "c", "r", "e", "t", "1", "2", "3">>
Secret456 == <<"S", "e", "c", "r", "e", "t", "4", "5", "6">>
\* a password with a NUL character in it
SecretNul == <<"S", "e", "c", "r", "e", "t", "1", "2", NUL>>
\* two passwords of 73 characters that differ in the last one only, and one
\* of exactly 72
Long1x == Rep("a", BcryptMaxBytes - 1) \o <<"1", "x">>
Long1y == Rep("a", BcryptMaxBytes - 1) \o <<"1", "y">>
Long1 == Rep("a", BcryptMaxBytes - 1) \o <<"1">>
\* too short, without a digit, without a letter
Short1 == <<"a", "b", "c", "1">>
NoDigit == <<"P", "a", "s", "s", "w", "o", "r", "d">>
NoLetter == <<"1", "2", "3", "4", "5", "6", "7", "8">>

\* three more passwords: one that continues another, a common one, and
\* one of 73 characters
Secret1234 == Secret123 \o <<"4">>
Passw0rd == <<"P", "a", "s", "s", "w", "0", "r", "d">>
Long2 == Rep("b", BcryptMaxBytes) \o <<"2">>

\* the passwords of the requests to the API
Passwords == {Secret123, Secret456}
\* the secrets given to the hasher
Secrets == Passwords \cup {SecretNul, Long1x, Long1y, Long1, Short1, NoDigit, NoLetter,
                           Secret1234, Passw0rd, Long2}

NoSub == "<no sub>"
NoAud == "<no aud>"
NoExp == 0 - 1
NoDelta == 0

\* (iss, aud) pairs: those of config.create_access_token, those of
\* AuthService.create_access_token, and a foreign pair
ConfigIssAud == [iss |-> "event_manager_api", aud |-> "event_manager_api_users"]
ServiceIssAud == [iss |-> "event_app", aud |-> "/api"]
ForeignIssAud == [iss |-> "someone_else", aud |-> NoAud]
IssAuds == {ConfigIssAud, ServiceIssAud, ForeignIssAud}

----------------------------------------------------------------------------
(* Tokens.  A compact JWS string is modelled by what it carries: the key   *)
(* its signature was made with and its claims.  Anything that is not three *)
(* base64 segments is "malformed"; "none" is the absent Authorization      *)
(* header.                                                                 *)

NoClaims == [sub |-> NoSub, exp |-> NoExp, iat |-> 0, iss |-> "", aud |-> NoAud]

NoHeader == [kind |-> "none", key |-> "", claims |-> NoClaims]
Malformed == [kind |-> "malformed", key |-> "", claims |-> NoClaims]

Jwt(key, claims) == [kind |-> "jwt", key |-> key, claims |-> claims]

\* timegm(dt.utctimetuple()): a datetime becomes whole seconds, rounded down
Timegm(t) == t \div TicksPerSec

\* jose.jwt.encode: exp and iat given as datetime become NumericDate
\* values, then the claim set is signed with the key
JwtEncode(to_encode, key) ==
    Jwt(key, [to_encode EXCEPT !.exp = Timegm(to_encode.exp),
                               !.iat = Timegm(to_encode.iat)])

\* a jose.jwt.decode outcome
DecodeOk(claims) == [ok |-> TRUE, exc |-> "", msg |-> "", claims |-> claims]
DecodeErr(exc, msg) == [ok |-> FALSE, exc |-> exc, msg |-> msg, claims |-> NoClaims]

\* the options of jose.jwt.decode the code sets somewhere; all default to
\* True.  verify_iss has no effect, since no call passes an issuer.
DefaultOptions == [verify_signature |-> TRUE, verify_exp |-> TRUE, verify_aud |-> TRUE]

\* jose.jwt.decode(token, key, algorithms, options) at wall-clock time t,
\* with no audience, issuer or subject passed (None) and leeway 0.
\* jws.verify comes first (structure, then signature), then the claims:
\* exp (against the clock in whole seconds) before aud (an aud claim never
\* matches the audience None).
JwtDecode(token, key, options, t) ==
    IF token.kind # "jwt"
      THEN DecodeErr("JWTError", "Not enough segments")
    ELSE IF options.verify_signature /\ token.key # key
      THEN DecodeErr("JWTError", "Signature verification failed.")
    ELSE IF options.verify_exp /\ token.claims.exp # NoExp
                               /\ token.claims.exp < Timegm(t)
      THEN DecodeErr("ExpiredSignatureError", "Signature has expired.")
    ELSE IF options.verify_aud /\ token.claims.aud # NoAud
      THEN DecodeErr("JWTClaimsError", "Invalid audience")
    ELSE DecodeOk(token.claims)

----------------------------------------------------------------------------
(* config: create_access_token, create_user_access_token, decode_token *)

\* the expiry of a token whose lifetime starts at clock reading t1
Expire(expires_delta, t1) ==
    IF expires_delta # NoDelta
      THEN t1 + expires_delta
      ELSE t1 + Minutes(ACCESS_TOKEN_EXPIRE_MINUTES)

\* what a create_access_token call gives: the token, or the exception
Minted(token) == [exc |-> "", token |-> token]
MintErr(exc) == [exc |-> exc, token |-> NoHeader]

\* create_access_token with the clock read at t1 (for exp) and, later, at
\* t2 (for iat); data = {"sub": sub}, or {} when sub is NoSub
create_access_token(sub, expires_delta, t1, t2) ==
    IF sub = NoSub THEN MintErr("ValueError")
    ELSE Minted(JwtEncode([sub |-> sub, exp |-> Expire(expires_delta, t1),
                           iat |-> t2, iss |-> ConfigIssAud.iss,
                           aud |-> ConfigIssAud.aud], SECRET_KEY))

\* a token whose subject is not the user's email
create_user_access_token_wrong_sub(user, t1, t2) ==
    create_access_token("user.email", NoDelta, t1, t2)

create_user_access_token(user, t1, t2) ==
    create_access_token(user.email, NoDelta, t1, t2)

\* a decode_token whose handlers are in the other order: the JWTError
\* handler catches the expiry as well
decode_token_one_message(token, t) ==
    LET r == JwtDecode(token, SECRET_KEY, DefaultOptions, t)
    IN  IF r.ok THEN r ELSE DecodeErr("JWTError", "Could not validate token")

\* decode_token: the payload, or JWTError with one of two messages
decode_token(token, t) ==
    LET r == JwtDecode(token, SECRET_KEY, DefaultOptions, t)
    IN  IF r.ok THEN r
        ELSE IF r.exc = "ExpiredSignatureError"
          THEN DecodeErr("JWTError", "Token has expired")
        ELSE DecodeErr("JWTError", "Could not validate token")

----------------------------------------------------------------------------
(* services.auth.AuthService: create_access_token, decode_token *)

ServiceCreateAccessToken(sub, expires_delta, t1, t2) ==
    Minted(JwtEncode([sub |-> sub, exp |-> Expire(expires_delta, t1), iat |-> t2,
                      iss |-> ServiceIssAud.iss, aud |-> ServiceIssAud.aud],
                     SECRET_KEY))

\* datetime.fromtimestamp(seconds), on a host whose local time is UTC
FromTimestamp(s) == s * TicksPerSec

\* AuthService.decode_token: a TokenPayload, or AuthException (401) whose
\* detail carries the library's message.  A missing exp makes TokenPayload
\* (exp: datetime, required) fail validation.
ServiceDecodeToken(token, t) ==
    LET r == JwtDecode(token, SECRET_KEY, DefaultOptions, t)
    IN  IF ~r.ok
          THEN DecodeErr("AuthException", "Could not validate credentials: " \o r.msg)
        ELSE IF r.claims.sub = NoSub
          THEN DecodeErr("AuthException", "Invalid token")
        ELSE IF r.claims.exp = NoExp
          THEN DecodeErr("ValidationError", "exp: Input should be a valid datetime")
        ELSE DecodeOk([r.claims EXCEPT !.exp = FromTimestamp(r.claims.exp),
                                       !.iat = FromTimestamp(r.claims.iat)])

\* config.is_token_expired at wall-clock time t: jwt.decode with
\* options = {"verify_exp": False} (the audience check stays on), then
\* utcnow() > fromtimestamp(exp); True for a JWTError and for a payload
\* without exp or with exp 0
is_token_expired(token, t) ==
    LET r == JwtDecode(token, SECRET_KEY,
                       [DefaultOptions EXCEPT !.verify_exp = FALSE], t)
    IN  IF ~r.ok THEN TRUE
        ELSE IF r.claims.exp = NoExp \/ r.claims.exp = 0 THEN TRUE
        ELSE t > FromTimestamp(r.claims.exp)

----------------------------------------------------------------------------
(* The user store (table users): rows in creation order, the id of a row   *)
(* is its position; no operation deletes a row.                            *)

\* a value of the column hashed_password: what the hasher made of a secret
\* (scheme "bcrypt"; of: the bytes the checksum was computed from, which
\* stand for the checksum), or any other string (scheme "")
BcryptHash(bytes) == [scheme |-> "bcrypt", of |-> bytes]
NotAHash(v) == [scheme |-> "", of |-> v]
NoHash == NotAHash(<< >>)

\* the bytes of a secret that bcrypt takes into the checksum
Truncated(secret) ==
    SubSeq(secret, 1, IF Len(secret) < BcryptMaxBytes THEN Len(secret)
                      ELSE BcryptMaxBytes)

\* pwd_context.hash(password): the hash, or the exception passlib raises
\* (bcrypt refuses a secret with a NUL in it)
get_password_hash(password) ==
    IF NUL \in Chars(password)
      THEN [exc |-> "NullPasswordError", hash |-> NoHash]
      ELSE [exc |-> "", hash |-> BcryptHash(Truncated(password))]

\* a verify_password that answers False where passlib raises
verify_password_quiet(plain_password, hashed_password) ==
    [exc |-> "",
     ok |-> /\ hashed_password.scheme = "bcrypt"
            /\ NUL \notin Chars(plain_password)
            /\ hashed_password.of = Truncated(plain_password)]

\* a verify_password that takes every secret for the right one
verify_password_always(plain_password, hashed_password) ==
    [exc |-> "", ok |-> TRUE]

\* pwd_context.verify(plain_password, hashed_password): True or False, or
\* the exception passlib raises: the hash is identified first (a string
\* that is no hash of a configured scheme raises), then the secret is
\* checked for NUL, then the checksums are compared
verify_password(plain_password, hashed_password) ==
    IF hashed_password.scheme # "bcrypt"
      THEN [exc |-> "UnknownHashError", ok |-> FALSE]
    ELSE IF NUL \in Chars(plain_password)
      THEN [exc |-> "NullPasswordError", ok |-> FALSE]
    ELSE [exc |-> "", ok |-> hashed_password.of = Truncated(plain_password)]

\* UserRegister.validate_password / PasswordChange.validate_new_password
validate_password(v) ==
    /\ Len(v) >= 8
    /\ Chars(v) \cap Digits # {}
    /\ Chars(v) \ (Digits \cup {NUL}) # {}

\* a lookup that finds nobody
GetOrNoneNobody(store, email) == 0

\* User.get_or_none(email = email): the id of the row, 0 for None
GetOrNone(store, email) ==
    IF \E i \in 1..Len(store) : store[i].email = email
      THEN CHOOSE i \in 1..Len(store) : store[i].email = email
      ELSE 0

\* User.create(...)
Create(store, email, first_name, last_name, hashed_password) ==
    Append(store, [email |-> email, first_name |-> first_name,
                   last_name |-> last_name, hashed_password |-> hashed_password])

----------------------------------------------------------------------------
(* api.dependencies: the two gates *)

\* an HTTP outcome; uid is the resolved user (0: none)
Http(status, detail, challenge, uid) ==
    [status |-> status, detail |-> detail, challenge |-> challenge, uid |-> uid]

credentials_exception == Http(401, "Could not validate credentials", "Bearer", 0)

\* HTTPBearer() with auto_error: a request without bearer credentials is
\* refused by the scheme itself, before the dependency body runs
NotAuthenticated == Http(403, "Not authenticated", "", 0)

\* an exception no handler catches: the server answers 500
InternalServerError == Http(500, "Internal Server Error", "", 0)

\* a request body the schema rejects (RequestValidationError)
Unprocessable == Http(422, "validation error", "", 0)

\* a gate that does not check the expiry
GateOptionsNoExp == [DefaultOptions EXCEPT !.verify_aud = FALSE, !.verify_exp = FALSE]

\* a gate that leaves the audience check on
GateOptionsVerifyAud == [DefaultOptions EXCEPT !.verify_aud = TRUE]

\* the options both gates pass to jwt.decode
GateOptions == [DefaultOptions EXCEPT !.verify_aud = FALSE]

\* the jwt.decode call both gates make
GateDecode(token, t) == JwtDecode(token, SECRET_KEY, GateOptions, t)

\* a mandatory gate that reads the claims without verifying the signature
get_current_user_unverified(credentials, store, t) ==
    IF credentials.kind = "none" THEN NotAuthenticated
    ELSE LET payload == JwtDecode(credentials, SECRET_KEY,
                                  [GateOptions EXCEPT !.verify_signature = FALSE], t)
         IN  IF ~payload.ok THEN credentials_exception
             ELSE IF payload.claims.sub = NoSub THEN credentials_exception
             ELSE IF GetOrNone(store, payload.claims.sub) = 0
               THEN credentials_exception
             ELSE Http(200, "", "", GetOrNone(store, payload.claims.sub))

\* a mandatory gate that tells the client when the subject is unknown
get_current_user_404(credentials, store, t) ==
    IF credentials.kind = "none" THEN NotAuthenticated
    ELSE LET payload == GateDecode(credentials, t)
         IN  IF ~payload.ok THEN credentials_exception
             ELSE IF payload.claims.sub = NoSub THEN credentials_exception
             ELSE IF GetOrNone(store, payload.claims.sub) = 0
               THEN Http(404, "User not found", "", 0)
             ELSE Http(200, "", "", GetOrNone(store, payload.claims.sub))

\* a mandatory gate that takes a request without a header for the first user
get_current_user_default_user(credentials, store, t) ==
    IF credentials.kind = "none"
      THEN IF Len(store) > 0 THEN Http(200, "", "", 1) ELSE NotAuthenticated
    ELSE LET payload == GateDecode(credentials, t)
         IN  IF ~payload.ok THEN credentials_exception
             ELSE IF payload.claims.sub = NoSub THEN credentials_exception
             ELSE IF GetOrNone(store, payload.claims.sub) = 0
               THEN credentials_exception
             ELSE Http(200, "", "", GetOrNone(store, payload.claims.sub))

get_current_user(credentials, store, t) ==
    IF credentials.kind = "none" THEN NotAuthenticated
    ELSE LET payload == GateDecode(credentials, t)
         IN  IF ~payload.ok THEN credentials_exception
             ELSE IF payload.claims.sub = NoSub THEN credentials_exception
             ELSE IF GetOrNone(store, payload.claims.sub) = 0
               THEN credentials_exception
             ELSE Http(200, "", "", GetOrNone(store, payload.claims.sub))

\* an optional gate that raises on a bad token, as the mandatory one does
get_current_user_optional_raising(credentials, store, t) ==
    IF credentials.kind = "none" THEN Http(200, "", "", 0)
    ELSE LET payload == GateDecode(credentials, t)
         IN  IF ~payload.ok THEN credentials_exception
             ELSE IF payload.claims.sub = NoSub THEN credentials_exception
             ELSE Http(200, "", "", GetOrNone(store, payload.claims.sub))

\* an optional gate that reads the claims without verifying the signature
get_current_user_optional_unverified(credentials, store, t) ==
    IF credentials.kind = "none" THEN Http(200, "", "", 0)
    ELSE LET payload == JwtDecode(credentials, SECRET_KEY,
                                  [GateOptions EXCEPT !.verify_signature = FALSE], t)
         IN  IF ~payload.ok THEN Http(200, "", "", 0)
             ELSE IF payload.claims.sub = NoSub THEN Http(200, "", "", 0)
             ELSE Http(200, "", "", GetOrNone(store, payload.claims.sub))

\* returns the resolved user (uid 0: None); status 200 says it returned
get_current_user_optional(credentials, store, t) ==
    IF credentials.kind = "none" THEN Http(200, "", "", 0)
    ELSE LET payload == GateDecode(credentials, t)
         IN  IF ~payload.ok THEN Http(200, "", "", 0)
             ELSE IF payload.claims.sub = NoSub THEN Http(200, "", "", 0)
             ELSE Http(200, "", "", GetOrNone(store, payload.claims.sub))

----------------------------------------------------------------------------
(* State.                                                                  *)
(*   clock  the wall clock, in ticks                                       *)
(*   users  the user store                                                 *)
(*   resp   the token the caller last received: from register or login     *)
(*          (id: the id in the TokenResponse) or from a direct             *)
(*          create_access_token call (id 0); logout: the caller has logged *)
(*          out with it                                                    *)
(*   last   the call in progress, with its result (Idle: none)             *)
(*   tasks  the requests that are handled concurrently, one coroutine      *)
(*          each: where the coroutine stands (pc) and the objects it holds *)

NoResp == [token |-> NoHeader, id |-> 0, email |-> "", logout |-> FALSE]

\* a call: what was presented and when the call read the clock; the other
\* fields are the email or username and the passwords of the request, and
\* the call's result (body: the fields of the JSON answer; before: what the
\* handler found stored)
Call(op, token, t) ==
    [op |-> op, token |-> token, t |-> t,
     status |-> 0, detail |-> "", challenge |-> "", uid |-> 0,
     identity |-> 0, exc |-> "", claims |-> NoClaims, email |-> "",
     token_type |-> "", lifetime |-> 0, username |-> "",
     password |-> << >>, new_password |-> << >>, body |-> << >>,
     before |-> << >>, event_id |-> 0, ok |-> FALSE, request |-> << >>]

\* a call answered with an HTTP outcome
Answer(call, http) ==
    [call EXCEPT !.status = http.status, !.detail = http.detail,
                 !.challenge = http.challenge, !.uid = http.uid]

Idle == Call("idle", NoHeader, 0)

\* a coroutine that handles no request: user and event are the model
\* objects it has loaded, flag the result of its exists() query
NoTask ==
    [op |-> "", pc |-> "idle", uid |-> 0, user |-> << >>, event_id |-> 0,
     event |-> << >>, flag |-> FALSE, request |-> << >>, status |-> 0,
     detail |-> "", body |-> << >>]

NoTasks == [i \in 1..MaxTasks |-> NoTask]

Init ==
    /\ clock = 0
    /\ users = << >>
    /\ resp = NoResp
    /\ last = Idle
    /\ categories = << >>
    /\ locations = << >>
    /\ events = << >>
    /\ likes = {}
    /\ registrations = {}
    /\ changed = {}
    /\ tasks = NoTasks

\* the clock's position within the current epoch (epochs are one default
\* token lifetime long)
Phase(t) == t % Minutes(ACCESS_TOKEN_EXPIRE_MINUTES)

\* date.today() at instant t: the number of the day (the server's zone is
\* taken to be UTC)
Today(t) == t \div Minutes(24 * 60)

\* time passes: one tick
Tick ==
    /\ last = Idle
    /\ Phase(clock) < MaxPhase
    /\ clock' = clock + 1
    /\ UNCHANGED <<users, resp, last, eventVars, changed, tasks>>

\* time passes: one default token lifetime
Sleep ==
    /\ last = Idle
    /\ clock < MaxSleeps * Minutes(ACCESS_TOKEN_EXPIRE_MINUTES)
    /\ clock' = clock + Minutes(ACCESS_TOKEN_EXPIRE_MINUTES)
    /\ UNCHANGED <<users, resp, last, eventVars, changed, tasks>>

\* the request is over: its result has gone to the caller and the
\* per-request objects are discarded
Complete ==
    /\ last # Idle
    /\ last' = Idle
    /\ UNCHANGED <<clock, users, resp, eventVars, changed, tasks>>

\* ticks that may pass between the two clock reads of one call
Drifts == {d \in 0..MaxDrift : Phase(clock) + d <= MaxPhase}

\* the User object of row id: the columns and the primary key
UserObject(store, id) ==
    [id |-> id, email |-> store[id].email, first_name |-> store[id].first_name,
     last_name |-> store[id].last_name,
     hashed_password |-> store[id].hashed_password]

\* a response_model that lets every attribute of the object through
AllUserFields == {"id", "email", "first_name", "last_name", "hashed_password"}

\* the fields of schemas.BaseUser (the two timestamps are left out of the
\* model)
BaseUserFields == {"id", "email", "first_name", "last_name"}

\* response_model = BaseUser with from_attributes: the answer carries the
\* schema's fields of the returned object and nothing else
BaseUser(obj) == [f \in BaseUserFields |-> obj[f]]

\* TokenResponse(access_token, token_type = "bearer", id, email, ...)
TokenResponse(call, store, id) ==
    [Answer(call, Http(200, "", "", id)) EXCEPT
        !.email = store[id].email, !.token_type = "bearer",
        !.lifetime = Minutes(ACCESS_TOKEN_EXPIRE_MINUTES),
        !.body = [access_token |-> call.token, token_type |-> "bearer",
                  id |-> id, email |-> store[id].email,
                  first_name |-> store[id].first_name,
                  last_name |-> store[id].last_name]]

\* register, from the hashing to User.create: the new store, or the
\* exception of the hasher
RegisterCreate(store, email, first_name, last_name, password) ==
    LET hashed_password == get_password_hash(password)
    IN  IF hashed_password.exc # "" THEN [exc |-> hashed_password.exc, store |-> store]
        ELSE [exc |-> "",
              store |-> Create(store, email, first_name, last_name,
                               hashed_password.hash)]

\* POST /auth/register; d: the ticks that pass between the two clock reads
\* of create_access_token
Register(email, first_name, last_name, password, d) ==
    /\ last = Idle
    /\ UNCHANGED <<eventVars, changed, tasks>>
    /\ LET call == [Call("register", NoHeader, clock) EXCEPT
                        !.username = email, !.password = password]
           created == RegisterCreate(users, email, first_name, last_name, password)
       IN  IF ~validate_password(password)
             THEN /\ last' = [Answer(call, Unprocessable) EXCEPT
                                 !.exc = "RequestValidationError"]
                  /\ UNCHANGED <<clock, users, resp>>
           ELSE IF GetOrNone(users, email) # 0
             THEN /\ last' = [Answer(call, Http(400, "User with this email already exists",
                                                "", 0))
                                 EXCEPT !.exc = "BadRequestException",
                                        !.before = users[GetOrNone(users, email)]]
                  /\ UNCHANGED <<clock, users, resp>>
           ELSE IF created.exc # ""
             THEN /\ last' = [Answer(call, InternalServerError) EXCEPT
                                 !.exc = created.exc]
                  /\ UNCHANGED <<clock, users, resp>>
           ELSE   LET store == created.store
                      id == Len(store)
                      access_token ==
                          create_user_access_token(store[id], clock, clock + d).token
                  IN  /\ users' = store
                      /\ clock' = clock + d
                      /\ last' = TokenResponse([call EXCEPT !.token = access_token],
                                               store, id)
                      /\ resp' = [token |-> access_token, id |-> id,
                                  email |-> store[id].email, logout |-> FALSE]

\* a login that tells the client when the email is unknown
LoginOutcomeTelling(store, username, password) ==
    LET id == GetOrNone(store, username)
    IN  IF id = 0 THEN Http(404, "User not found", "", 0)
        ELSE IF verify_password(password, store[id].hashed_password).exc # ""
          THEN InternalServerError
        ELSE IF ~verify_password(password, store[id].hashed_password).ok
          THEN Http(401, "Incorrect email or password", "Bearer", 0)
        ELSE Http(200, "", "", id)

\* login up to the token: AuthException (401), the exception
\* verify_password raises (no handler catches it: 500), or the user (200)
LoginOutcome(store, username, password) ==
    LET id == GetOrNone(store, username)
    IN  IF id = 0 THEN Http(401, "Incorrect email or password", "Bearer", 0)
        ELSE IF verify_password(password, store[id].hashed_password).exc # ""
          THEN InternalServerError
        ELSE IF ~verify_password(password, store[id].hashed_password).ok
          THEN Http(401, "Incorrect email or password", "Bearer", 0)
        ELSE Http(200, "", "", id)

\* POST /auth/login; d: the ticks that pass between the two clock reads of
\* create_access_token
Login(username, password, d) ==
    /\ last = Idle
    /\ UNCHANGED <<eventVars, changed, tasks>>
    /\ LET call == [Call("login", NoHeader, clock) EXCEPT
                        !.username = username, !.password = password]
           outcome == LoginOutcome(users, username, password)
           id == outcome.uid
       IN  IF outcome.status # 200
             THEN /\ last' = [Answer(call, outcome) EXCEPT
                                 !.exc = IF outcome.status = 401 THEN "AuthException"
                                         ELSE verify_password(password,
                                                  users[GetOrNone(users, username)].hashed_password).exc]
                  /\ UNCHANGED <<clock, users, resp>>
             ELSE   LET access_token ==
                            create_user_access_token(users[id], clock, clock + d).token
                    IN  /\ clock' = clock + d
                        /\ last' = TokenResponse([call EXCEPT !.token = access_token],
                                                 users, id)
                        /\ resp' = [token |-> access_token, id |-> id,
                                    email |-> users[id].email, logout |-> FALSE]
                        /\ UNCHANGED users

\* what a client can put in the Authorization header: nothing, garbage, the
\* token it was given, or any claim set signed with any key
ExpChoices == {1, NoExp}

Crafted ==
    {Jwt(k, [sub |-> s, exp |-> e, iat |-> 0, iss |-> ia.iss, aud |-> ia.aud]) :
        k \in Keys, s \in Emails \cup {NoSub}, e \in ExpChoices, ia \in IssAuds}

Presentable == {NoHeader, Malformed, resp.token} \cup Crafted

\* the passwords of the register and login requests: two good ones, and for
\* register one the validator refuses and one the hasher refuses, for login
\* one that fits no user and has a NUL in it
RegisterPasswords == Passwords \cup {Short1, SecretNul}
LoginPasswords == Passwords \cup {SecretNul}

\* GET /users/me: the mandatory gate, then the profile of the resolved user
GetMe(credentials) ==
    /\ last = Idle
    /\ LET current_user == get_current_user(credentials, users, clock)
       IN  last' = [Answer(Call("get_me", credentials, clock), current_user) EXCEPT
                       !.identity = current_user.uid,
                       !.email = IF current_user.uid # 0
                                   THEN users[current_user.uid].email ELSE "",
                       !.body = IF current_user.uid # 0
                                  THEN BaseUser(UserObject(users, current_user.uid))
                                  ELSE << >>]
    /\ UNCHANGED <<clock, users, resp, eventVars, changed, tasks>>

\* a logout that puts the user out of the store
LogoutRevoking(store, uid) == [i \in 1..Len(store) |->
    IF i = uid THEN [store[i] EXCEPT !.email = "revoked"] ELSE store[i]]

\* what logout does to the user store: nothing
LogoutEffect(store, uid) == store

\* POST /auth/logout: the mandatory gate, then a message
Logout(credentials) ==
    /\ last = Idle
    /\ LET current_user == get_current_user(credentials, users, clock)
       IN  /\ last' = [Answer(Call("logout", credentials, clock), current_user) EXCEPT
                          !.identity = current_user.uid,
                          !.body = IF current_user.uid # 0
                                     THEN [message |-> "Successfully logged out"]
                                     ELSE << >>]
           /\ users' = IF current_user.uid # 0
                         THEN LogoutEffect(users, current_user.uid) ELSE users
           /\ resp' = IF current_user.uid # 0 /\ credentials = resp.token
                        THEN [resp EXCEPT !.logout = TRUE] ELSE resp
    /\ UNCHANGED <<clock, eventVars, changed, tasks>>

\* UserUpdate bodies: the fields that are set and not None
UserUpdates == {<< >>, [first_name |-> "Bob"]}

\* a save() that writes the row without its email
SaveUserNoEmail(store, obj) ==
    [store EXCEPT ![obj.id] = [email |-> "", first_name |-> obj.first_name,
                               last_name |-> obj.last_name,
                               hashed_password |-> obj.hashed_password]]

\* setattr for every field of update_data, then save(): every column of
\* the row is written from the object
SaveUser(store, obj) ==
    [store EXCEPT ![obj.id] = [email |-> obj.email, first_name |-> obj.first_name,
                               last_name |-> obj.last_name,
                               hashed_password |-> obj.hashed_password]]

SetAttrs(obj, update_data) ==
    [f \in DOMAIN obj |-> IF f \in DOMAIN update_data THEN update_data[f] ELSE obj[f]]

\* PUT /users/me: the mandatory gate, then the update of the given fields
UpdateProfile(credentials, update_data) ==
    /\ last = Idle
    /\ LET gate == get_current_user(credentials, users, clock)
           call == Call("update_me", credentials, clock)
       IN  IF gate.uid = 0
             THEN /\ last' = Answer(call, gate)
                  /\ UNCHANGED users
             ELSE LET current_user == SetAttrs(UserObject(users, gate.uid), update_data)
                  IN  /\ users' = IF DOMAIN update_data = {} THEN users
                                   ELSE SaveUser(users, current_user)
                      /\ last' = [Answer(call, gate) EXCEPT
                                     !.identity = gate.uid,
                                     !.before = users[gate.uid],
                                     !.body = BaseUser(current_user)]
    /\ UNCHANGED <<clock, resp, eventVars, changed, tasks>>

BadRequest(detail) == Http(400, detail, "", 0)

\* a change_password that does not look at the old password
ChangePasswordOutcomeUnchecked(current_user, old_password, new_password) ==
    [http |-> Http(200, "", "", current_user.id), exc |-> "",
     hashed_password |-> get_password_hash(new_password).hash]

\* the body of change_password for the user object the gate returned: the
\* answer and the hash to store (the old one where nothing is saved)
ChangePasswordOutcome(current_user, old_password, new_password) ==
    LET stored == current_user.hashed_password
        keep(http, exc) == [http |-> http, exc |-> exc, hashed_password |-> stored]
    IN  IF verify_password(old_password, stored).exc # ""
          THEN keep(InternalServerError, verify_password(old_password, stored).exc)
        ELSE IF ~verify_password(old_password, stored).ok
          THEN keep(BadRequest("Incorrect old password"), "BadRequestException")
        ELSE IF verify_password(new_password, stored).exc # ""
          THEN keep(InternalServerError, verify_password(new_password, stored).exc)
        ELSE IF verify_password(new_password, stored).ok
          THEN keep(BadRequest("New password must be different from old password"),
                    "BadRequestException")
        ELSE IF get_password_hash(new_password).exc # ""
          THEN keep(InternalServerError, get_password_hash(new_password).exc)
        ELSE [http |-> Http(200, "", "", current_user.id), exc |-> "",
              hashed_password |-> get_password_hash(new_password).hash]

\* PATCH /users/me/password: the mandatory gate, the validation of the
\* body, then the change
ChangePassword(credentials, old_password, new_password) ==
    /\ last = Idle
    /\ LET gate == get_current_user(credentials, users, clock)
           call == [Call("change_password", credentials, clock) EXCEPT
                       !.password = old_password, !.new_password = new_password]
       IN  IF gate.uid = 0
             THEN /\ last' = Answer(call, gate)
                  /\ UNCHANGED <<users, changed>>
           ELSE IF ~validate_password(new_password)
             THEN /\ last' = [Answer(call, Unprocessable) EXCEPT
                                 !.identity = gate.uid,
                                 !.exc = "RequestValidationError",
                                 !.before = users[gate.uid]]
                  /\ UNCHANGED <<users, changed>>
           ELSE LET current_user == UserObject(users, gate.uid)
                    outcome == ChangePasswordOutcome(current_user, old_password,
                                                     new_password)
                IN  /\ users' = IF outcome.http.status # 200 THEN users
                                 ELSE SaveUser(users,
                                        [current_user EXCEPT
                                           !.hashed_password = outcome.hashed_password])
                    /\ changed' = IF outcome.http.status # 200 THEN changed
                                   ELSE {c \in changed : c.uid # gate.uid} \cup
                                        {[uid |-> gate.uid, old |-> old_password,
                                          new |-> new_password]}
                    /\ last' = [Answer(call, outcome.http) EXCEPT
                                   !.identity = gate.uid, !.exc = outcome.exc,
                                   !.before = users[gate.uid],
                                   !.body = IF outcome.http.status = 200
                                              THEN [message |-> "Password changed successfully"]
                                              ELSE << >>]
    /\ UNCHANGED <<clock, resp, eventVars, tasks>>

\* the answer of GET /events/ (and GET /events/{id} for an existing event):
\* current_user is resolved and then not read
EventsResponse(current_user) == Http(200, "", "", 0)

\* a str is the sequence of its characters
Riga == <<"R", "i", "g", "a">>
Jazz == <<"J", "a", "z", "z">>
Talk == <<"T", "a", "l", "k">>
NoText == << >>

\* the fields of schemas.BaseEvent the model keeps
BaseEvent(evs, event_id) ==
    [id |-> event_id, title |-> evs[event_id].title,
     short_description |-> evs[event_id].short_description,
     full_description |-> evs[event_id].full_description,
     date |-> evs[event_id].date,
     organizer |-> evs[event_id].organizer,
     location |-> evs[event_id].location, categories |-> evs[event_id].categories,
     likes_count |-> evs[event_id].likes_count,
     participants_count |-> evs[event_id].participants_count]

\* str.lower() of a character
Lower(c) ==
    CASE c = "R" -> "r" [] c = "J" -> "j" [] c = "T" -> "t" [] OTHER -> c

\* field__icontains = needle
IContains(hay, needle) ==
    \E i \in 0..(Len(hay) - Len(needle)) :
        \A j \in 1..Len(needle) : Lower(hay[i + j]) = Lower(needle[j])

\* the query parameters of a listing; None is 0 for category_id, NoText
\* for city and search, "" for sort_by_likes
NoFilter ==
    [category_id |-> 0, city |-> NoText, search |-> NoText, sort_by_likes |-> "",
     page |-> 1, size |-> 20]

\* a listing that forgets the date filter
SelectedAnyDate(evs, locs, q, today) ==
    {i \in 1..Len(evs) :
        /\ evs[i].live
        /\ q.category_id # 0 => q.category_id \in evs[i].categories
        /\ q.city # NoText => IContains(locs[evs[i].location].city, q.city)
        /\ q.search # NoText =>
              \/ IContains(evs[i].title, q.search)
              \/ IContains(evs[i].short_description, q.search)
              \/ IContains(evs[i].full_description, q.search)}

\* the events a listing's query selects: the filters that were asked for,
\* and date__gte = date.today()
Selected(evs, locs, q, today) ==
    {i \in 1..Len(evs) :
        /\ evs[i].live
        /\ q.category_id # 0 => q.category_id \in evs[i].categories
        /\ q.city # NoText => IContains(locs[evs[i].location].city, q.city)
        /\ q.search # NoText =>
              \/ IContains(evs[i].title, q.search)
              \/ IContains(evs[i].short_description, q.search)
              \/ IContains(evs[i].full_description, q.search)
        /\ evs[i].date >= today}

\* order_by: event a comes before event b (created_at grows with the id)
Precedes(evs, sort_by_likes, a, b) ==
    IF sort_by_likes = "desc" /\ evs[a].likes_count # evs[b].likes_count
      THEN evs[a].likes_count > evs[b].likes_count
    ELSE IF sort_by_likes = "asc" /\ evs[a].likes_count # evs[b].likes_count
      THEN evs[a].likes_count < evs[b].likes_count
    ELSE a > b

RECURSIVE Ordered(_, _, _)
Ordered(evs, sort_by_likes, ids) ==
    IF ids = {} THEN << >>
    ELSE LET first == CHOOSE a \in ids :
                          \A b \in ids \ {a} : Precedes(evs, sort_by_likes, a, b)
         IN  <<first>> \o Ordered(evs, sort_by_likes, ids \ {first})

\* offset (page - 1) * size, limit size
PageOf(rows, page, size) ==
    [k \in 1..(IF Len(rows) - (page - 1) * size < 0 THEN 0
               ELSE IF Len(rows) - (page - 1) * size > size THEN size
               ELSE Len(rows) - (page - 1) * size) |-> rows[(page - 1) * size + k]]

\* the page of a listing: items, total, page, size, pages
Listing(evs, locs, q, today, item) ==
    LET rows == Ordered(evs, q.sort_by_likes, Selected(evs, locs, q, today))
        ids == PageOf(rows, q.page, q.size)
    IN  [items |-> [k \in 1..Len(ids) |-> item[ids[k]]],
         total |-> Len(rows), page |-> q.page, size |-> q.size,
         pages |-> (Len(rows) + q.size - 1) \div q.size]

\* GET /events/: the optional gate, then the public listing
GetEvents(credentials, q) ==
    /\ last = Idle
    /\ LET current_user == get_current_user_optional(credentials, users, clock)
           item == [id \in 1..Len(events) |-> BaseEvent(events, id)]
       IN  last' = [Answer(Call("get_events", credentials, clock),
                           IF current_user.status # 200 THEN current_user
                           ELSE EventsResponse(current_user.uid))
                      EXCEPT !.identity = current_user.uid,
                             !.body = IF current_user.status # 200 THEN << >>
                                      ELSE Listing(events, locations, q,
                                                   Today(clock), item)]
    /\ UNCHANGED <<clock, users, resp, eventVars, changed, tasks>>

\* GET /events/with-status: the mandatory gate, then the listing with the
\* caller's is_liked and is_registered
GetEventsWithStatus(credentials, q) ==
    /\ last = Idle
    /\ LET gate == get_current_user(credentials, users, clock)
           item == [id \in 1..Len(events) |-> [event |-> BaseEvent(events, id),
                        is_liked |-> <<gate.uid, id>> \in likes,
                        is_registered |-> <<gate.uid, id>> \in registrations]]
       IN  last' = [Answer(Call("get_events_with_status", credentials, clock), gate)
                      EXCEPT !.identity = gate.uid,
                             !.body = IF gate.uid = 0 THEN << >>
                                      ELSE Listing(events, locations, q,
                                                   Today(clock), item)]
    /\ UNCHANGED <<clock, users, resp, eventVars, changed, tasks>>

----------------------------------------------------------------------------
(* api.category, api.locations, api.events.  Rows are kept in creation     *)
(* order, the id of a row is its position; a deleted event leaves its      *)
(* position behind (live FALSE), since ids are not given out twice.  Of an *)
(* event the model keeps the texts, the date (a day number), the           *)
(* organizer, the location, the categories and the two counters; the       *)
(* relation tables user_event_likes and user_event_registrations are sets  *)
(* of <<user id, event id>>.                                               *)

\* title, short_description and full_description of the events created
EventTexts ==
    {[title |-> Jazz, short_description |-> Talk, full_description |-> NoText],
     [title |-> Talk, short_description |-> NoText, full_description |-> NoText]}

CategoryNames == {"music"}

NotFound(detail) == Http(404, detail, "", 0)

\* POST /categories/
CreateCategory(credentials, name) ==
    /\ last = Idle
    /\ LET gate == get_current_user(credentials, users, clock)
           call == Call("create_category", credentials, clock)
       IN  IF gate.uid = 0
             THEN /\ last' = Answer(call, gate)
                  /\ UNCHANGED categories
           ELSE IF \E i \in 1..Len(categories) : categories[i].name = name
             THEN /\ last' = [Answer(call, BadRequest("Category with this name already exists"))
                                 EXCEPT !.identity = gate.uid]
                  /\ UNCHANGED categories
           ELSE /\ categories' = Append(categories, [name |-> name])
                /\ last' = [Answer(call, gate) EXCEPT
                               !.identity = gate.uid,
                               !.body = [id |-> Len(categories) + 1, name |-> name]]
    /\ UNCHANGED <<clock, users, resp, locations, events, likes, registrations, changed, tasks>>

\* POST /locations/
CreateLocation(credentials, city) ==
    /\ last = Idle
    /\ Len(locations) < MaxLocations
    /\ LET gate == get_current_user(credentials, users, clock)
           call == Call("create_location", credentials, clock)
       IN  IF gate.uid = 0
             THEN /\ last' = Answer(call, gate)
                  /\ UNCHANGED locations
             ELSE /\ locations' = Append(locations, [city |-> city])
                  /\ last' = [Answer(call, gate) EXCEPT
                                 !.identity = gate.uid,
                                 !.body = [id |-> Len(locations) + 1, city |-> city]]
    /\ UNCHANGED <<clock, users, resp, categories, events, likes, registrations, changed, tasks>>

\* the ids of a list
Ids(list) == {list[i] : i \in 1..Len(list)}

\* what is left at the position of a deleted event
DeletedEvent ==
    [live |-> FALSE, title |-> NoText, short_description |-> NoText,
     full_description |-> NoText, date |-> 0, organizer |-> 0, location |-> 0,
     categories |-> {}, likes_count |-> 0, participants_count |-> 0]

\* EventCreate.validate_future_date, EventUpdate.validate_future_date
validate_future_date(v, t) == ~(v < Today(t))

\* POST /events/
CreateEvent(credentials, text, date, location_id, category_ids) ==
    /\ last = Idle
    /\ Len(events) < MaxEvents
    /\ LET gate == get_current_user(credentials, users, clock)
           call == [Call("create_event", credentials, clock) EXCEPT
                       !.request = [date |-> date, location_id |-> location_id,
                                    category_ids |-> category_ids]]
           found == Ids(category_ids) \cap (1..Len(categories))
           event == [live |-> TRUE, title |-> text.title,
                     short_description |-> text.short_description,
                     full_description |-> text.full_description,
                     date |-> date,
                     organizer |-> gate.uid, location |-> location_id,
                     categories |-> found, likes_count |-> 0,
                     participants_count |-> 0]
       IN  IF gate.uid = 0
             THEN /\ last' = Answer(call, gate)
                  /\ UNCHANGED events
           ELSE IF ~validate_future_date(date, clock) \/ Len(category_ids) < 1
             THEN /\ last' = [Answer(call, Unprocessable) EXCEPT !.identity = gate.uid]
                  /\ UNCHANGED events
           ELSE IF location_id \notin 1..Len(locations)
             THEN /\ last' = [Answer(call, NotFound("Location not found")) EXCEPT
                                 !.identity = gate.uid]
                  /\ UNCHANGED events
           ELSE IF Cardinality(found) # Len(category_ids)
             THEN /\ last' = [Answer(call, NotFound("One or more categories not found"))
                                 EXCEPT !.identity = gate.uid]
                  /\ UNCHANGED events
           ELSE /\ events' = Append(events, event)
                /\ last' = [Answer(call, gate) EXCEPT
                               !.identity = gate.uid,
                               !.event_id = Len(events) + 1,
                               !.body = BaseEvent(Append(events, event), Len(events) + 1)]
    /\ UNCHANGED <<clock, users, resp, categories, locations, likes, registrations, changed, tasks>>

\* Event.get_or_none(id = event_id): the id of the row, 0 for None
GetEventOrNone(evs, event_id) ==
    IF event_id \in 1..Len(evs) /\ evs[event_id].live THEN event_id ELSE 0

\* max(0, n)
Max0(n) == IF n > 0 THEN n ELSE 0

\* a toggle_like that forgets to count the removal of a like
toggle_like_no_decrement(evs, lks, event_id, user_id) ==
    IF GetEventOrNone(evs, event_id) = 0
      THEN [http |-> NotFound("Event not found"), events |-> evs, likes |-> lks]
    ELSE IF <<user_id, event_id>> \in lks
      THEN [http |-> Http(200, "", "", user_id), events |-> evs,
            likes |-> lks \ {<<user_id, event_id>>}]
    ELSE [http |-> Http(200, "", "", user_id),
          events |-> [evs EXCEPT ![event_id].likes_count = @ + 1],
          likes |-> lks \cup {<<user_id, event_id>>}]

\* the body of toggle_like for the user the gate returned: the answer, and
\* the tables after remove / add and event.save()
toggle_like(evs, lks, event_id, user_id) ==
    IF GetEventOrNone(evs, event_id) = 0
      THEN [http |-> NotFound("Event not found"), events |-> evs, likes |-> lks]
    ELSE IF <<user_id, event_id>> \in lks
      THEN [http |-> Http(200, "", "", user_id),
            events |-> [evs EXCEPT ![event_id].likes_count = Max0(@ - 1)],
            likes |-> lks \ {<<user_id, event_id>>}]
    ELSE [http |-> Http(200, "", "", user_id),
          events |-> [evs EXCEPT ![event_id].likes_count = @ + 1],
          likes |-> lks \cup {<<user_id, event_id>>}]

\* what a handler finds for the user and the event before it acts
Found(event_id, user_id) ==
    IF GetEventOrNone(events, event_id) = 0 THEN << >>
    ELSE [liked |-> <<user_id, event_id>> \in likes,
          registered |-> <<user_id, event_id>> \in registrations,
          likes_count |-> events[event_id].likes_count,
          participants_count |-> events[event_id].participants_count,
          likes |-> likes, registrations |-> registrations]

\* POST /events/{event_id}/like
ToggleLike(credentials, event_id) ==
    /\ last = Idle
    /\ LET gate == get_current_user(credentials, users, clock)
           call == [Call("toggle_like", credentials, clock) EXCEPT !.event_id = event_id]
           r == toggle_like(events, likes, event_id, gate.uid)
       IN  IF gate.uid = 0
             THEN /\ last' = Answer(call, gate)
                  /\ UNCHANGED <<events, likes>>
             ELSE /\ events' = r.events
                  /\ likes' = r.likes
                  /\ last' = [Answer(call, r.http) EXCEPT
                                 !.identity = gate.uid,
                                 !.before = Found(event_id, gate.uid),
                                 !.body = IF r.http.status = 200
                                            THEN BaseEvent(r.events, event_id) ELSE << >>]
    /\ UNCHANGED <<clock, users, resp, categories, locations, registrations, changed, tasks>>

\* a register_for_event that does not look whether the user is registered
register_for_event_unchecked(evs, regs, event_id, user_id) ==
    IF GetEventOrNone(evs, event_id) = 0
      THEN [http |-> NotFound("Event not found"), events |-> evs, registrations |-> regs]
    ELSE [http |-> Http(200, "", "", user_id),
          events |-> [evs EXCEPT ![event_id].participants_count = @ + 1],
          registrations |-> regs \cup {<<user_id, event_id>>}]

\* the body of register_for_event
register_for_event(evs, regs, event_id, user_id) ==
    IF GetEventOrNone(evs, event_id) = 0
      THEN [http |-> NotFound("Event not found"), events |-> evs, registrations |-> regs]
    ELSE IF <<user_id, event_id>> \in regs
      THEN [http |-> BadRequest("Already registered for this event"),
            events |-> evs, registrations |-> regs]
    ELSE [http |-> Http(200, "", "", user_id),
          events |-> [evs EXCEPT ![event_id].participants_count = @ + 1],
          registrations |-> regs \cup {<<user_id, event_id>>}]

\* the body of unregister_from_event
unregister_from_event(evs, regs, event_id, user_id) ==
    IF GetEventOrNone(evs, event_id) = 0
      THEN [http |-> NotFound("Event not found"), events |-> evs, registrations |-> regs]
    ELSE IF <<user_id, event_id>> \notin regs
      THEN [http |-> BadRequest("Not registered for this event"),
            events |-> evs, registrations |-> regs]
    ELSE [http |-> Http(200, "", "", user_id),
          events |-> [evs EXCEPT ![event_id].participants_count = Max0(@ - 1)],
          registrations |-> regs \ {<<user_id, event_id>>}]

\* POST /events/{event_id}/register
RegisterForEvent(credentials, event_id) ==
    /\ last = Idle
    /\ LET gate == get_current_user(credentials, users, clock)
           call == [Call("register_for_event", credentials, clock) EXCEPT
                       !.event_id = event_id]
           r == register_for_event(events, registrations, event_id, gate.uid)
       IN  IF gate.uid = 0
             THEN /\ last' = Answer(call, gate)
                  /\ UNCHANGED <<events, registrations>>
             ELSE /\ events' = r.events
                  /\ registrations' = r.registrations
                  /\ last' = [Answer(call, r.http) EXCEPT
                                 !.identity = gate.uid,
                                 !.before = Found(event_id, gate.uid),
                                 !.body = IF r.http.status = 200
                                            THEN BaseEvent(r.events, event_id) ELSE << >>]
    /\ UNCHANGED <<clock, users, resp, categories, locations, likes, changed, tasks>>

\* DELETE /events/{event_id}/register
UnregisterFromEvent(credentials, event_id) ==
    /\ last = Idle
    /\ LET gate == get_current_user(credentials, users, clock)
           call == [Call("unregister_from_event", credentials, clock) EXCEPT
                       !.event_id = event_id]
           r == unregister_from_event(events, registrations, event_id, gate.uid)
       IN  IF gate.uid = 0
             THEN /\ last' = Answer(call, gate)
                  /\ UNCHANGED <<events, registrations>>
             ELSE /\ events' = r.events
                  /\ registrations' = r.registrations
                  /\ last' = [Answer(call, r.http) EXCEPT
                                 !.identity = gate.uid,
                                 !.before = Found(event_id, gate.uid),
                                 !.body = IF r.http.status = 200
                                            THEN [message |-> "Successfully unregistered from event"]
                                            ELSE << >>]
    /\ UNCHANGED <<clock, users, resp, categories, locations, likes, changed, tasks>>

Forbidden(detail) == Http(403, detail, "", 0)

\* the body of EventUpdate is accepted: a date that is given is not
\* before today, and a list category_ids that is given is not empty
ValidEventUpdate(update_data, t) ==
    /\ "date" \in DOMAIN update_data => validate_future_date(update_data.date, t)
    /\ "category_ids" \in DOMAIN update_data => Len(update_data.category_ids) >= 1

\* setattr(event, field, value) for the fields that are left in update_data
SetEventAttrs(event, update_data) ==
    [f \in DOMAIN event |->
        IF f \in DOMAIN update_data \ {"location_id", "category_ids"}
          THEN update_data[f] ELSE event[f]]

\* an update_event that does not look who the organizer is
update_event_by_anyone(evs, locs, cats, event_id, user_id, update_data) ==
    IF GetEventOrNone(evs, event_id) = 0
      THEN [http |-> NotFound("Event not found"), events |-> evs]
    ELSE [http |-> Http(200, "", "", user_id),
          events |-> [evs EXCEPT ![event_id] = SetEventAttrs(@, update_data)]]

\* the body of update_event for the user the gate returned.  The
\* categories are replaced in the relation table as soon as they are found;
\* the location and the other fields are written by event.save()
update_event(evs, locs, cats, event_id, user_id, update_data) ==
    LET event == evs[event_id]
        has(f) == f \in DOMAIN update_data
        found == Ids(update_data.category_ids) \cap (1..Len(cats))
        located == IF has("location_id")
                     THEN [event EXCEPT !.location = update_data.location_id]
                     ELSE event
        related == IF has("category_ids")
                     THEN [located EXCEPT !.categories = found] ELSE located
    IN  IF GetEventOrNone(evs, event_id) = 0
          THEN [http |-> NotFound("Event not found"), events |-> evs]
        ELSE IF event.organizer # user_id
          THEN [http |-> Forbidden("You can only update your own events"),
                events |-> evs]
        ELSE IF has("location_id") /\ update_data.location_id \notin 1..Len(locs)
          THEN [http |-> NotFound("Location not found"), events |-> evs]
        ELSE IF has("category_ids") /\ Cardinality(found) # Len(update_data.category_ids)
          THEN [http |-> NotFound("One or more categories not found"), events |-> evs]
        ELSE [http |-> Http(200, "", "", user_id),
              events |-> [evs EXCEPT ![event_id] = SetEventAttrs(related, update_data)]]

\* PUT /events/{event_id}
UpdateEvent(credentials, event_id, update_data) ==
    /\ last = Idle
    /\ LET gate == get_current_user(credentials, users, clock)
           call == [Call("update_event", credentials, clock) EXCEPT
                       !.event_id = event_id, !.request = update_data]
           r == update_event(events, locations, categories, event_id, gate.uid,
                             update_data)
       IN  IF gate.uid = 0
             THEN /\ last' = Answer(call, gate)
                  /\ UNCHANGED events
           ELSE IF ~ValidEventUpdate(update_data, clock)
             THEN /\ last' = [Answer(call, Unprocessable) EXCEPT !.identity = gate.uid]
                  /\ UNCHANGED events
           ELSE /\ events' = r.events
                /\ last' = [Answer(call, r.http) EXCEPT
                               !.identity = gate.uid,
                               !.before = Found(event_id, gate.uid),
                               !.body = IF r.http.status = 200
                                          THEN BaseEvent(r.events, event_id) ELSE << >>]
    /\ UNCHANGED <<clock, users, resp, categories, locations, likes, registrations, changed, tasks>>

\* the body of delete_event: the row goes, and with it (ON DELETE CASCADE)
\* its rows in the relation tables
delete_event(evs, lks, regs, event_id, user_id) ==
    IF GetEventOrNone(evs, event_id) = 0
      THEN [http |-> NotFound("Event not found"),
            events |-> evs, likes |-> lks, registrations |-> regs]
    ELSE IF evs[event_id].organizer # user_id
      THEN [http |-> Forbidden("You can only delete your own events"),
            events |-> evs, likes |-> lks, registrations |-> regs]
    ELSE [http |-> Http(200, "", "", user_id),
          events |-> [evs EXCEPT ![event_id] = DeletedEvent],
          likes |-> {x \in lks : x[2] # event_id},
          registrations |-> {x \in regs : x[2] # event_id}]

\* DELETE /events/{event_id}
DeleteEvent(credentials, event_id) ==
    /\ last = Idle
    /\ LET gate == get_current_user(credentials, users, clock)
           call == [Call("delete_event", credentials, clock) EXCEPT
                       !.event_id = event_id]
           r == delete_event(events, likes, registrations, event_id, gate.uid)
       IN  IF gate.uid = 0
             THEN /\ last' = Answer(call, gate)
                  /\ UNCHANGED <<events, likes, registrations>>
             ELSE /\ events' = r.events
                  /\ likes' = r.likes
                  /\ registrations' = r.registrations
                  /\ last' = [Answer(call, r.http) EXCEPT
                                 !.identity = gate.uid,
                                 !.before = Found(event_id, gate.uid),
                                 !.body = IF r.http.status = 200
                                            THEN [message |-> "Event deleted successfully"]
                                            ELSE << >>]
    /\ UNCHANGED <<clock, users, resp, categories, locations, changed, tasks>>

----------------------------------------------------------------------------
(* The handlers as coroutines.  A handler runs until it awaits the         *)
(* database; there another request may be served.  Each step below is the  *)
(* code of a handler from one await to the next, with the one query or     *)
(* statement it awaits; no handler opens a transaction.                    *)

\* the coroutine is over: the answer
Done(task, status, detail) ==
    [task EXCEPT !.pc = "done", !.status = status, !.detail = detail]

EventOps == {"toggle_like", "register_for_event", "unregister_from_event"}

\* the gate of a request to an event endpoint: get_current_user loads the
\* user
BeginEventTask(i, op, credentials, event_id) ==
    /\ tasks[i].pc = "idle"
    /\ LET gate == get_current_user(credentials, users, clock)
           task == [NoTask EXCEPT !.op = op, !.event_id = event_id]
       IN  tasks' = [tasks EXCEPT ![i] =
                       IF gate.uid = 0 THEN Done(task, gate.status, gate.detail)
                       ELSE [task EXCEPT !.pc = "gate", !.uid = gate.uid,
                                         !.user = UserObject(users, gate.uid)]]
    /\ UNCHANGED <<clock, users, resp, last, eventVars, changed>>

\* event = await Event.get_or_none(id=event_id)
TaskGetEvent(i) ==
    /\ tasks[i].pc = "gate"
    /\ tasks[i].op \in EventOps
    /\ LET task == tasks[i]
       IN  tasks' = [tasks EXCEPT ![i] =
                       IF GetEventOrNone(events, task.event_id) = 0
                         THEN Done(task, 404, "Event not found")
                         ELSE [task EXCEPT !.pc = "event",
                                           !.event = events[task.event_id]]]
    /\ UNCHANGED <<clock, users, resp, last, eventVars, changed>>

\* liked / registered = await current_user.<relation>.filter(id=event_id).exists()
TaskExists(i) ==
    /\ tasks[i].pc = "event"
    /\ LET task == tasks[i]
           pair == <<task.uid, task.event_id>>
           flag == IF task.op = "toggle_like" THEN pair \in likes
                   ELSE pair \in registrations
       IN  tasks' = [tasks EXCEPT ![i] =
                       IF task.op = "register_for_event" /\ flag
                         THEN Done(task, 400, "Already registered for this event")
                       ELSE IF task.op = "unregister_from_event" /\ ~flag
                         THEN Done(task, 400, "Not registered for this event")
                       ELSE [task EXCEPT !.pc = "exists", !.flag = flag]]
    /\ UNCHANGED <<clock, users, resp, last, eventVars, changed>>

\* await current_user.<relation>.remove(event) or .add(event), and the
\* counter of the event object
TaskRelate(i) ==
    /\ tasks[i].pc = "exists"
    /\ LET task == tasks[i]
           pair == <<task.uid, task.event_id>>
       IN  /\ likes' = IF task.op # "toggle_like" THEN likes
                       ELSE IF task.flag THEN likes \ {pair} ELSE likes \cup {pair}
           /\ registrations' =
                  IF task.op = "register_for_event" THEN registrations \cup {pair}
                  ELSE IF task.op = "unregister_from_event" THEN registrations \ {pair}
                  ELSE registrations
           /\ tasks' = [tasks EXCEPT ![i] =
                  [task EXCEPT
                     !.pc = "related",
                     !.event =
                        IF task.op = "toggle_like" /\ task.flag
                          THEN [task.event EXCEPT !.likes_count = Max0(@ - 1)]
                        ELSE IF task.op = "toggle_like"
                          THEN [task.event EXCEPT !.likes_count = @ + 1]
                        ELSE IF task.op = "register_for_event"
                          THEN [task.event EXCEPT !.participants_count = @ + 1]
                        ELSE [task.event EXCEPT !.participants_count = Max0(@ - 1)]]]
    /\ UNCHANGED <<clock, users, resp, last, categories, locations, events, changed>>

\* await event.save(): every column of the row is written from the object
TaskSaveEvent(i) ==
    /\ tasks[i].pc = "related"
    /\ events' = IF GetEventOrNone(events, tasks[i].event_id) = 0 THEN events
                 ELSE [events EXCEPT ![tasks[i].event_id] = tasks[i].event]
    /\ tasks' = [tasks EXCEPT ![i] = Done(tasks[i], 200, "")]
    /\ UNCHANGED <<clock, users, resp, last, categories, locations, likes,
                   registrations, changed>>

\* POST /auth/register begins: the body is validated
BeginRegisterTask(i, email, password) ==
    /\ tasks[i].pc = "idle"
    /\ LET task == [NoTask EXCEPT !.op = "register",
                                  !.request = [email |-> email, password |-> password]]
       IN  tasks' = [tasks EXCEPT ![i] =
                       IF ~validate_password(password)
                         THEN Done(task, Unprocessable.status, Unprocessable.detail)
                         ELSE [task EXCEPT !.pc = "register"]]
    /\ UNCHANGED <<clock, users, resp, last, eventVars, changed>>

\* existing_user = await User.get_or_none(email=user_data.email)
TaskRegisterGet(i) ==
    /\ tasks[i].pc = "register"
    /\ LET task == tasks[i]
       IN  tasks' = [tasks EXCEPT ![i] =
                       IF GetOrNone(users, task.request.email) # 0
                         THEN Done(task, 400, "User with this email already exists")
                         ELSE [task EXCEPT !.pc = "absent"]]
    /\ UNCHANGED <<clock, users, resp, last, eventVars, changed>>

\* user = await User.create(...): the INSERT fails on the unique index of
\* users.email when a row with the email is there by now (IntegrityError,
\* which nothing catches); then the token and the answer
TaskRegisterCreate(i) ==
    /\ tasks[i].pc = "absent"
    /\ LET task == tasks[i]
           created == RegisterCreate(users, task.request.email, "Ann", "Lee",
                                     task.request.password)
       IN  IF created.exc # "" \/ GetOrNone(users, task.request.email) # 0
             THEN /\ tasks' = [tasks EXCEPT ![i] =
                                 Done(task, InternalServerError.status,
                                      InternalServerError.detail)]
                  /\ UNCHANGED users
             ELSE /\ users' = created.store
                  /\ tasks' = [tasks EXCEPT ![i] =
                        [Done(task, 200, "") EXCEPT
                           !.uid = Len(created.store),
                           !.body = [access_token |->
                                       create_user_access_token(
                                           created.store[Len(created.store)],
                                           clock, clock).token]]]
    /\ UNCHANGED <<clock, resp, last, eventVars, changed>>

UserOps == {"update_me", "change_password"}

\* the gate of PUT /users/me and PATCH /users/me/password:
\* get_current_user loads the user; the body is validated
BeginUserTask(i, op, credentials, request) ==
    /\ tasks[i].pc = "idle"
    /\ LET gate == get_current_user(credentials, users, clock)
           task == [NoTask EXCEPT !.op = op, !.request = request]
       IN  tasks' = [tasks EXCEPT ![i] =
                       IF gate.uid = 0 THEN Done(task, gate.status, gate.detail)
                       ELSE IF op = "change_password"
                               /\ ~validate_password(request.new_password)
                         THEN Done([task EXCEPT !.uid = gate.uid],
                                   Unprocessable.status, Unprocessable.detail)
                       ELSE [task EXCEPT !.pc = "gate", !.uid = gate.uid,
                                         !.user = UserObject(users, gate.uid)]]
    /\ UNCHANGED <<clock, users, resp, last, eventVars, changed>>

\* the handler's code up to and with await current_user.save(): every
\* column of the row is written from the object the gate loaded
TaskSaveUser(i) ==
    /\ tasks[i].pc = "gate"
    /\ tasks[i].op \in UserOps
    /\ LET task == tasks[i]
           outcome == ChangePasswordOutcome(task.user, task.request.old_password,
                                            task.request.new_password)
           current_user ==
               IF task.op = "update_me" THEN SetAttrs(task.user, task.request)
               ELSE [task.user EXCEPT !.hashed_password = outcome.hashed_password]
       IN  IF task.op = "update_me" /\ DOMAIN task.request = {}
             THEN /\ tasks' = [tasks EXCEPT ![i] =
                                 [Done(task, 200, "") EXCEPT !.body = BaseUser(task.user)]]
                  /\ UNCHANGED users
           ELSE IF task.op = "change_password" /\ outcome.http.status # 200
             THEN /\ tasks' = [tasks EXCEPT ![i] =
                                 Done(task, outcome.http.status, outcome.http.detail)]
                  /\ UNCHANGED users
           ELSE /\ users' = SaveUser(users, current_user)
                /\ tasks' = [tasks EXCEPT ![i] =
                      IF task.op = "change_password" THEN Done(task, 200, "")
                      ELSE [task EXCEPT !.pc = "saved", !.user = current_user]]
    /\ UNCHANGED <<clock, resp, last, eventVars, changed>>

\* await current_user.refresh_from_db(), and the answer of PUT /users/me
TaskRefreshUser(i) ==
    /\ tasks[i].pc = "saved"
    /\ LET task == tasks[i]
           current_user == UserObject(users, task.uid)
       IN  tasks' = [tasks EXCEPT ![i] =
                       [Done(task, 200, "") EXCEPT !.user = current_user,
                                                   !.body = BaseUser(current_user)]]
    /\ UNCHANGED <<clock, users, resp, last, eventVars, changed>>

----------------------------------------------------------------------------
(* Direct calls of the token codec *)

\* expires_delta: None, or one second
Deltas == {NoDelta, TicksPerSec}

\* the result of a create_access_token call
MintResult(call, r, expires_delta) ==
    [call EXCEPT !.token = r.token, !.exc = r.exc,
                 !.lifetime = IF expires_delta # NoDelta THEN expires_delta
                              ELSE Minutes(ACCESS_TOKEN_EXPIRE_MINUTES)]

\* config.create_access_token(data, expires_delta)
CreateAccessTokenCall(sub, expires_delta) ==
    /\ last = Idle
    /\ \E d \in Drifts :
         LET r == create_access_token(sub, expires_delta, clock, clock + d)
         IN  /\ last' = MintResult(Call("create_access_token", NoHeader, clock),
                                   r, expires_delta)
             /\ clock' = IF r.exc = "" THEN clock + d ELSE clock
             /\ resp' = IF r.exc = ""
                          THEN [token |-> r.token, id |-> 0, email |-> sub,
                                logout |-> FALSE]
                        ELSE resp
    /\ UNCHANGED <<users, eventVars, changed, tasks>>

\* AuthService.create_access_token(data, expires_delta)
ServiceCreateAccessTokenCall(sub, expires_delta) ==
    /\ last = Idle
    /\ \E d \in Drifts :
         LET r == ServiceCreateAccessToken(sub, expires_delta, clock, clock + d)
         IN  /\ last' = MintResult(Call("AuthService.create_access_token", NoHeader, clock),
                                   r, expires_delta)
             /\ clock' = clock + d
             /\ resp' = [token |-> r.token, id |-> 0, email |-> sub,
                         logout |-> FALSE]
    /\ UNCHANGED <<users, eventVars, changed, tasks>>

\* the result of a decode_token call
DecodeResult(call, r) ==
    [call EXCEPT !.exc = r.exc, !.detail = r.msg, !.claims = r.claims]

\* config.decode_token(token)
DecodeTokenCall(token) ==
    /\ last = Idle
    /\ last' = DecodeResult(Call("decode_token", token, clock),
                            decode_token(token, clock))
    /\ UNCHANGED <<clock, users, resp, eventVars, changed, tasks>>

\* AuthService.decode_token(token)
ServiceDecodeTokenCall(token) ==
    /\ last = Idle
    /\ last' = DecodeResult(Call("AuthService.decode_token", token, clock),
                            ServiceDecodeToken(token, clock))
    /\ UNCHANGED <<clock, users, resp, eventVars, changed, tasks>>

\* config.is_token_expired(token)
IsTokenExpiredCall(token) ==
    /\ last = Idle
    /\ last' = [Call("is_token_expired", token, clock) EXCEPT
                  !.ok = is_token_expired(token, clock)]
    /\ UNCHANGED <<clock, users, resp, eventVars, changed, tasks>>

----------------------------------------------------------------------------

\* the API: requests to the handlers, and token decoding
Next ==
    \/ Tick
    \/ Sleep
    \/ Complete
    \/ \E e \in Emails, p \in RegisterPasswords, d \in Drifts :
          Register(e, "Ann", "Lee", p, d)
    \/ \E e \in Emails, p \in LoginPasswords, d \in Drifts : Login(e, p, d)
    \/ \E c \in Presentable : GetMe(c)
    \/ \E c \in Presentable : GetEvents(c, NoFilter)
    \/ \E c \in Presentable \ {NoHeader} : DecodeTokenCall(c)
    \/ \E c \in Presentable \ {NoHeader} : ServiceDecodeTokenCall(c)

Spec == Init /\ [][Next]_vars

\* the token codec on its own: minting and decoding
NextCodec ==
    \/ Tick
    \/ Sleep
    \/ Complete
    \/ \E s \in Emails \cup {NoSub}, dl \in Deltas : CreateAccessTokenCall(s, dl)
    \/ \E s \in Emails \cup {NoSub}, dl \in Deltas : ServiceCreateAccessTokenCall(s, dl)
    \/ \E c \in Presentable \ {NoHeader} : DecodeTokenCall(c)
    \/ \E c \in Presentable \ {NoHeader} : ServiceDecodeTokenCall(c)

SpecCodec == Init /\ [][NextCodec]_vars

\* expiry: tokens are minted and, as time passes, asked about
NextExpiry ==
    \/ Tick
    \/ Sleep
    \/ Complete
    \/ \E s \in Emails, dl \in Deltas : CreateAccessTokenCall(s, dl)
    \/ \E c \in Presentable \ {NoHeader} : IsTokenExpiredCall(c)

SpecExpiry == Init /\ [][NextExpiry]_vars

\* what the holder of a token sends: no header, garbage, or the token
Held == {NoHeader, Malformed, resp.token}

\* sessions: register or log in, use the token, log out, use it again
NextSession ==
    \/ Tick
    \/ Sleep
    \/ Complete
    \/ \E e \in Emails, p \in Passwords, d \in Drifts : Register(e, "Ann", "Lee", p, d)
    \/ \E e \in Emails, p \in Passwords, d \in Drifts : Login(e, p, d)
    \/ \E c \in Held : Logout(c)
    \/ \E c \in Held : GetMe(c)

SpecSession == Init /\ [][NextSession]_vars

\* values of the column hashed_password: the hashes the hasher makes, and
\* two strings that are no hash ("not-a-hash", and a password in plain)
NotHashes == {NotAHash(<<"n", "o", "t", "-", "a", "-", "h", "a", "s", "h">>),
              NotAHash(Secret123)}
StoredHashes ==
    {get_password_hash(t).hash : t \in {x \in Secrets : get_password_hash(x).exc = ""}}
        \cup NotHashes

\* get_password_hash(password)
GetPasswordHashCall(password) ==
    /\ last = Idle
    /\ last' = [Call("get_password_hash", NoHeader, clock) EXCEPT
                   !.password = password,
                   !.exc = get_password_hash(password).exc,
                   !.body = [hash |-> get_password_hash(password).hash]]
    /\ UNCHANGED <<clock, users, resp, eventVars, changed, tasks>>

\* verify_password(plain_password, hashed_password)
VerifyPasswordCall(plain_password, hashed_password) ==
    /\ last = Idle
    /\ last' = [Call("verify_password", NoHeader, clock) EXCEPT
                   !.password = plain_password,
                   !.before = hashed_password,
                   !.exc = verify_password(plain_password, hashed_password).exc,
                   !.ok = verify_password(plain_password, hashed_password).ok]
    /\ UNCHANGED <<clock, users, resp, eventVars, changed, tasks>>

\* the password hasher on its own
NextHasher ==
    \/ Complete
    \/ \E t \in Secrets : GetPasswordHashCall(t)
    \/ \E s \in Secrets, h \in StoredHashes : VerifyPasswordCall(s, h)

SpecHasher == Init /\ [][NextHasher]_vars

\* the token a login of row i at clock 0 returns
TokenOf(store, i) == create_user_access_token(store[i], 0, 0).token

\* what the users send: no header, or the token of one of them
UserTokens == {NoHeader} \cup {TokenOf(users, i) : i \in 1..Len(users)}

\* the old and the new password of a password change, and the password of
\* a login
OldPasswords == Passwords \cup {SecretNul}
NewPasswords == Passwords \cup {SecretNul, Short1}
UserPasswords == Passwords \cup {SecretNul}

\* accounts: register, log in, read and update the profile, change the
\* password
NextUsers ==
    \/ Complete
    \/ \E e \in Emails, p \in Passwords : Register(e, "Ann", "Lee", p, 0)
    \/ \E e \in Emails, p \in UserPasswords : Login(e, p, 0)
    \/ \E c \in UserTokens : GetMe(c)
    \/ \E c \in UserTokens, d \in UserUpdates : UpdateProfile(c, d)
    \/ \E c \in UserTokens, o \in OldPasswords, n \in NewPasswords :
          ChangePassword(c, o, n)

SpecUsers == Init /\ [][NextUsers]_vars

\* the ids of the events of a request: those that exist and one more
EventIds == 1..(MaxEvents + 1)

\* events: users register, create a category, a location and an event,
\* and like the event and register for it
NextEvents ==
    \/ Complete
    \/ \E e \in Emails : Register(e, "Ann", "Lee", Secret123, 0)
    \/ \E c \in UserTokens, n \in CategoryNames : CreateCategory(c, n)
    \/ \E c \in UserTokens : CreateLocation(c, Riga)
    \/ \E c \in UserTokens, l \in 1..MaxLocations, cs \in {<<1>>, <<1, 1>>} :
          CreateEvent(c, CHOOSE x \in EventTexts : x.title = Jazz, Today(clock), l, cs)
    \/ \E c \in UserTokens, e \in EventIds : ToggleLike(c, e)
    \/ \E c \in UserTokens, e \in EventIds : RegisterForEvent(c, e)
    \/ \E c \in UserTokens, e \in EventIds : UnregisterFromEvent(c, e)

SpecEvents == Init /\ [][NextEvents]_vars

\* the query parameters of the listings
Queries ==
    {q \in [category_id : {0, 1}, city : {NoText, <<"r", "i">>},
            search : {NoText, <<"z", "z">>},
            sort_by_likes : {"", "asc", "desc"}, page : {1, 2}, size : {1, 20}] :
        q.page = 1 \/ q.size = 1}

\* the dates of the events of a request: yesterday, today, tomorrow
EventDates == {Today(clock) - 1, Today(clock), Today(clock) + 1}

\* listings: users create events for today and tomorrow and like them, a
\* day passes, and the events are listed
NextListing ==
    \/ Complete
    \/ Sleep
    \/ Register("a@x.com", "Ann", "Lee", Secret123, 0)
    \/ \E c \in UserTokens, n \in CategoryNames : CreateCategory(c, n)
    \/ \E c \in UserTokens : CreateLocation(c, Riga)
    \/ \E c \in UserTokens, x \in EventTexts, d \in EventDates :
          CreateEvent(c, x, d, 1, <<1>>)
    \/ \E c \in UserTokens, e \in EventIds : ToggleLike(c, e)
    \/ \E c \in UserTokens \cup {NoHeader}, q \in Queries : GetEvents(c, q)
    \/ \E c \in UserTokens \cup {NoHeader}, q \in Queries : GetEventsWithStatus(c, q)

SpecListing == Init /\ [][NextListing]_vars

\* names of categories, and the lists category_ids of the requests: one
\* id, an id twice, two ids, and ids that may not exist
MoreCategoryNames == CategoryNames \cup {"art"}
CategoryIdLists == {<<1>>, <<2>>, <<1, 1>>, <<1, 2>>, <<2, 3>>}

\* the bodies of PUT /events/{event_id}
EventUpdates ==
    {[date |-> Today(clock) - 1], [category_ids |-> << >>],
     [location_id |-> MaxLocations + 1], [category_ids |-> <<2, 3>>],
     [title |-> Talk, location_id |-> 2, category_ids |-> <<1, 2>>]}

\* organizers: users create categories, locations and events, and update
\* and delete events, their own and those of others
NextOrganizer ==
    \/ Complete
    \/ \E e \in Emails : Register(e, "Ann", "Lee", Secret123, 0)
    \/ \E c \in UserTokens, n \in MoreCategoryNames : CreateCategory(c, n)
    \/ \E c \in UserTokens : CreateLocation(c, Riga)
    \/ \E c \in UserTokens :
          CreateEvent(c, CHOOSE x \in EventTexts : x.title = Jazz, Today(clock), 1, <<1>>)
    \/ \E c \in UserTokens, e \in EventIds, u \in EventUpdates : UpdateEvent(c, e, u)
    \/ \E c \in UserTokens, e \in EventIds : DeleteEvent(c, e)

SpecOrganizer == Init /\ [][NextOrganizer]_vars

\* creation: a user creates categories, locations and events
NextCreate ==
    \/ Complete
    \/ Register("a@x.com", "Ann", "Lee", Secret123, 0)
    \/ \E c \in UserTokens, n \in MoreCategoryNames : CreateCategory(c, n)
    \/ \E c \in UserTokens : CreateLocation(c, Riga)
    \/ \E c \in UserTokens, x \in EventTexts, d \in EventDates,
          l \in 1..(MaxLocations + 1), cs \in CategoryIdLists \cup {<< >>} :
          CreateEvent(c, x, d, l, cs)

SpecCreate == Init /\ [][NextCreate]_vars

\* the token of the first user
FirstToken == {TokenOf(users, i) : i \in {1} \cap (1..Len(users))}

\* concurrent requests to the event endpoints.  While no coroutine has
\* started, users register and the first user creates a category, a
\* location and events, and events are liked and registered for, one
\* request at a time; then requests are handled concurrently
NextConcurrentEvents ==
    \/ Complete
    \/ tasks = NoTasks /\ \E e \in Emails : Register(e, "Ann", "Lee", Secret123, 0)
    \/ tasks = NoTasks /\ \E c \in FirstToken : CreateCategory(c, "music")
    \/ tasks = NoTasks /\ \E c \in FirstToken : CreateLocation(c, Riga)
    \/ tasks = NoTasks /\ \E c \in FirstToken :
          CreateEvent(c, CHOOSE x \in EventTexts : x.title = Jazz, Today(clock), 1, <<1>>)
    \/ tasks = NoTasks /\ \E c \in UserTokens : ToggleLike(c, 1)
    \/ tasks = NoTasks /\ \E c \in UserTokens : RegisterForEvent(c, 1)
    \/ \E i \in 1..MaxTasks, op \in EventOps, c \in UserTokens :
          last = Idle /\ BeginEventTask(i, op, c, 1)
    \/ \E i \in 1..MaxTasks : TaskGetEvent(i)
    \/ \E i \in 1..MaxTasks : TaskExists(i)
    \/ \E i \in 1..MaxTasks : TaskRelate(i)
    \/ \E i \in 1..MaxTasks : TaskSaveEvent(i)

SpecConcurrentEvents == Init /\ [][NextConcurrentEvents]_vars

\* the bodies of the concurrent requests to /users/me
NameChange == [first_name |-> "Bob"]
PasswordChanges ==
    {[old_password |-> Secret123, new_password |-> Secret456],
     [old_password |-> Secret456, new_password |-> Secret123]}

\* concurrent requests to register and to /users/me.  A user may have
\* registered before; then requests are handled concurrently
NextConcurrentUsers ==
    \/ Complete
    \/ tasks = NoTasks /\ \E e \in Emails : Register(e, "Ann", "Lee", Secret123, 0)
    \/ \E i \in 1..MaxTasks, e \in Emails, p \in Passwords \cup {Short1} :
          last = Idle /\ BeginRegisterTask(i, e, p)
    \/ \E i \in 1..MaxTasks : TaskRegisterGet(i)
    \/ \E i \in 1..MaxTasks : TaskRegisterCreate(i)
    \/ \E i \in 1..MaxTasks, c \in UserTokens, u \in {NameChange, << >>} :
          last = Idle /\ BeginUserTask(i, "update_me", c, u)
    \/ \E i \in 1..MaxTasks, c \in UserTokens, r \in PasswordChanges :
          last = Idle /\ BeginUserTask(i, "change_password", c, r)
    \/ \E i \in 1..MaxTasks : TaskSaveUser(i)
    \/ \E i \in 1..MaxTasks : TaskRefreshUser(i)

SpecConcurrentUsers == Init /\ [][NextConcurrentUsers]_vars

\* what the holder of a token sends
HeldToken == {resp.token}

\* a token over time: a user registers and logs in, and with the token
\* changes profile and password, logs out, and creates, likes and deletes
\* events, while time passes
NextStability ==
    \/ Tick
    \/ Sleep
    \/ Complete
    \/ Register("a@x.com", "Ann", "Lee", Secret123, 0)
    \/ Login("a@x.com", Secret456, 0)
    \/ \E c \in HeldToken : GetMe(c)
    \/ \E c \in HeldToken : UpdateProfile(c, NameChange)
    \/ \E c \in HeldToken : ChangePassword(c, Secret123, Secret456)
    \/ \E c \in HeldToken : Logout(c)
    \/ \E c \in HeldToken : CreateCategory(c, "music")
    \/ \E c \in HeldToken : CreateLocation(c, Riga)
    \/ \E c \in HeldToken :
          CreateEvent(c, CHOOSE x \in EventTexts : x.title = Jazz, Today(clock), 1, <<1>>)
    \/ \E c \in HeldToken : ToggleLike(c, 1)
    \/ \E c \in HeldToken : DeleteEvent(c, 1)

SpecStability == Init /\ [][NextStability]_vars

\* what a caller may send to a mutating endpoint: no header, something
\* that is no token, the token got at registration (good until it
\* expires), and tokens signed with another key, for nobody, and for
\* somebody who is not a user
AnonTokens ==
    {NoHeader, Malformed, resp.token,
     Jwt(OtherKey, [sub |-> "a@x.com", exp |-> NoExp, iat |-> 0,
                    iss |-> ConfigIssAud.iss, aud |-> ConfigIssAud.aud]),
     Jwt(SECRET_KEY, [sub |-> NoSub, exp |-> NoExp, iat |-> 0,
                      iss |-> ConfigIssAud.iss, aud |-> ConfigIssAud.aud]),
     Jwt(SECRET_KEY, [sub |-> "b@x.com", exp |-> NoExp, iat |-> 0,
                      iss |-> ConfigIssAud.iss, aud |-> ConfigIssAud.aud])}

\* the mutating endpoints, called with and without a valid identity
NextMutating ==
    \/ Tick
    \/ Sleep
    \/ Complete
    \/ Register("a@x.com", "Ann", "Lee", Secret123, 0)
    \/ \E c \in AnonTokens : UpdateProfile(c, [first_name |-> "Bob"])
    \/ \E c \in AnonTokens : ChangePassword(c, Secret123, Secret456)
    \/ \E c \in AnonTokens : CreateCategory(c, "music")
    \/ \E c \in AnonTokens : CreateLocation(c, Riga)
    \/ \E c \in AnonTokens :
          CreateEvent(c, CHOOSE x \in EventTexts : x.title = Jazz, Today(clock), 1, <<1>>)
    \/ \E c \in AnonTokens : UpdateEvent(c, 1, [title |-> Talk])
    \/ \E c \in AnonTokens : DeleteEvent(c, 1)
    \/ \E c \in AnonTokens : ToggleLike(c, 1)
    \/ \E c \in AnonTokens : RegisterForEvent(c, 1)
    \/ \E c \in AnonTokens : UnregisterFromEvent(c, 1)

SpecMutating == Init /\ [][NextMutating]_vars

----------------------------------------------------------------------------
(* Properties *)

GateCall == last.op \in {"get_me", "get_events"}

WellSigned(token) == token.kind = "jwt" /\ token.key = SECRET_KEY

\* the instant t lies after the token's expiry instant
PastExp(token, t) == token.claims.exp # NoExp /\ t > token.claims.exp * TicksPerSec

\* the clock read at t, in whole seconds, lies after the token's exp
PastExpSecond(token, t) == token.claims.exp # NoExp /\ Timegm(t) > token.claims.exp

SubjectExists(token) == token.claims.sub # NoSub /\ GetOrNone(users, token.claims.sub) # 0

\* the client-visible part of an answer
Visible(r) == <<r.status, r.detail, r.challenge>>

\* C1 as stated: a gate resolves a user only if the token is correctly
\* signed, the verification instant is not past its exp, it carries a sub,
\* and the resolved user is the stored user whose email is that sub.
C1_ResolvedOnlyIfValid ==
    (GateCall /\ last.identity # 0) =>
        /\ WellSigned(last.token)
        /\ ~PastExp(last.token, last.t)
        /\ last.token.claims.sub # NoSub
        /\ last.identity \in 1..Len(users)
        /\ users[last.identity].email = last.token.claims.sub

\* C1 amended: the same, with the expiry taken as the gate takes it: the
\* clock in whole seconds (rounded down) is not greater than exp, that is,
\* the verification instant is less than one second past exp.
C1_ResolvedOnlyIfValidToTheSecond ==
    (GateCall /\ last.identity # 0) =>
        /\ WellSigned(last.token)
        /\ ~PastExpSecond(last.token, last.t)
        /\ last.token.claims.sub # NoSub
        /\ last.identity \in 1..Len(users)
        /\ users[last.identity].email = last.token.claims.sub

\* C1 witness: the mandatory gate has resolved the token a registration
\* returned to the registered user
C1_Witness ==
    /\ last.op = "get_me"
    /\ resp.id # 0
    /\ last.token = resp.token
    /\ last.identity = resp.id

\* C2 as stated: every failure of the mandatory gate looks the same to the
\* client: 401, "Could not validate credentials", WWW-Authenticate: Bearer.
C2_UniformFailure ==
    (last.op = "get_me" /\ last.status # 200) =>
        Visible(last) = Visible(credentials_exception)

\* C2 amended: every failure of the mandatory gate on a request that
\* carries a bearer token (malformed, wrongly signed, expired, without sub,
\* unknown subject) looks the same to the client; a request without an
\* Authorization header is told apart: 403 "Not authenticated", without a
\* challenge header.
C2_UniformFailureWithToken ==
    (last.op = "get_me" /\ last.status # 200) =>
        /\ last.identity = 0
        /\ last.token.kind # "none" => Visible(last) = Visible(credentials_exception)
        /\ last.token.kind = "none" => Visible(last) = <<403, "Not authenticated", "">>

\* C2 witness: the mandatory gate has refused a correctly signed, unexpired
\* token whose subject no user has
C2_Witness ==
    /\ last.op = "get_me"
    /\ last.status = 401
    /\ WellSigned(last.token)
    /\ ~PastExpSecond(last.token, last.t)
    /\ last.token.claims.sub \in Emails
    /\ ~SubjectExists(last.token)
    /\ Len(users) > 0

\* the token is one the optional gate must answer with "no identity"
NoIdentityCase(token, t) ==
    \/ token.kind \in {"none", "malformed"}
    \/ ~WellSigned(token)
    \/ PastExpSecond(token, t)
    \/ ~SubjectExists(token)

\* C3: the optional gate never fails: GET /events/ answers 200 with the
\* anonymous caller's answer whatever is presented, and no header, a
\* malformed, wrongly signed or expired token, a token without sub and an
\* unknown subject all resolve to no identity.
C3_OptionalNeverFails ==
    last.op = "get_events" =>
        /\ last.status = 200
        /\ Visible(last) = Visible(EventsResponse(0))
        /\ last.uid = EventsResponse(0).uid
        /\ NoIdentityCase(last.token, last.t) => last.identity = 0

\* C3 witness: GET /events/ has answered a request that carried a
\* correctly signed token of a registered user, but expired
C3_Witness ==
    /\ last.op = "get_events"
    /\ last.status = 200
    /\ WellSigned(last.token)
    /\ SubjectExists(last.token)
    /\ PastExpSecond(last.token, last.t)
    /\ last.identity = 0

\* the gates' precondition of C4: a correctly signed token with an exp
\* whose subject exists
SignedForUser(token) ==
    WellSigned(token) /\ SubjectExists(token) /\ token.claims.exp # NoExp

\* C4 as stated: such a token is accepted at every instant t <= exp and
\* refused at every instant t > exp.
C4_ExactExpiry ==
    (GateCall /\ SignedForUser(last.token)) =>
        (last.identity # 0 <=> last.t <= last.token.claims.exp * TicksPerSec)

\* C4 amended: such a token is accepted at every instant before exp + 1 s
\* and refused from exp + 1 s on: the gates compare exp with the wall clock
\* in whole seconds, rounded down, with no further leeway; the mandatory
\* gate then fails with 401 and the optional gate resolves nobody.
C4_ExpiryToTheSecond ==
    (GateCall /\ SignedForUser(last.token)) =>
        /\ last.identity # 0 <=> last.t < (last.token.claims.exp + 1) * TicksPerSec
        /\ last.identity # 0 => last.identity = GetOrNone(users, last.token.claims.sub)
        /\ (last.op = "get_me" /\ last.identity = 0) => last.status = 401

\* C4 witness: a gate has refused the token a login or registration
\* returned, at the first instant at which it is refused
C4_Witness ==
    /\ GateCall
    /\ resp.id # 0
    /\ last.token = resp.token
    /\ last.t = (last.token.claims.exp + 1) * TicksPerSec
    /\ last.identity = 0

\* a token-minting call that returned a token
MintCall ==
    /\ last.op \in {"create_access_token", "AuthService.create_access_token",
                    "register", "login"}
    /\ last.token.kind = "jwt"

\* C5: every minted token has exp = iat + the lifetime (the configured
\* 1440 minutes, or the given expires_delta), in the token's whole seconds.
C5_ExpIsIatPlusLifetime ==
    MintCall => last.token.claims.exp = last.token.claims.iat + Timegm(last.lifetime)

DecodeCall == last.op \in {"decode_token", "AuthService.decode_token"}

\* the token the caller presents is the one it was last given, for a
\* subject, and the instant is not past its expiry
FreshMinted ==
    /\ resp.token.kind = "jwt"
    /\ resp.email \in Emails
    /\ last.token = resp.token
    /\ ~PastExp(last.token, last.t)

\* a decoded time claim in whole seconds: config.decode_token returns the
\* NumericDate, AuthService.decode_token a datetime
DecodedSeconds(x) == IF last.op = "decode_token" THEN x ELSE Timegm(x)

\* C7: decoding a token just minted, before its expiry, succeeds and
\* returns the claims it was minted with (exp and iat to the second).
C7_RoundTrip ==
    (DecodeCall /\ FreshMinted) =>
        /\ last.exc = ""
        /\ last.claims.sub = last.token.claims.sub
        /\ last.claims.iss = last.token.claims.iss
        /\ last.claims.aud = last.token.claims.aud
        /\ DecodedSeconds(last.claims.exp) = last.token.claims.exp
        /\ DecodedSeconds(last.claims.iat) = last.token.claims.iat

\* C8: iss and aud are embedded in every token the API mints and are not
\* enforced by the gates: a correctly signed, unexpired token whose subject
\* exists resolves to that user whatever its iss and aud are.
C8_IssAudNotEnforced ==
    /\ (GateCall /\ WellSigned(last.token) /\ ~PastExpSecond(last.token, last.t)
                 /\ SubjectExists(last.token)) =>
           /\ last.identity = GetOrNone(users, last.token.claims.sub)
           /\ last.op = "get_me" => last.status = 200
    /\ (last.op \in {"register", "login"} /\ last.status = 200) =>
           /\ last.token.claims.iss = ConfigIssAud.iss
           /\ last.token.claims.aud = ConfigIssAud.aud

\* C8 witness: the mandatory gate has accepted a token that carries the iss
\* and aud of AuthService.create_access_token
C8_Witness ==
    /\ last.op = "get_me"
    /\ last.status = 200
    /\ last.token.claims.iss = ServiceIssAud.iss
    /\ last.token.claims.aud = ServiceIssAud.aud

\* why a token fails to decode: "malformed", "signature" or "expired"
\* ("": none of the three)
Cause(token, t) ==
    IF token.kind = "malformed" THEN "malformed"
    ELSE IF token.kind = "jwt" /\ token.key # SECRET_KEY THEN "signature"
    ELSE IF WellSigned(token) /\ PastExpSecond(token, t) THEN "expired"
    ELSE ""

\* what the decode_token function of the call in last raises for the token
Raised(token) ==
    IF last.op = "decode_token"
      THEN <<decode_token(token, last.t).exc, decode_token(token, last.t).msg>>
      ELSE <<ServiceDecodeToken(token, last.t).exc, ServiceDecodeToken(token, last.t).msg>>

\* tokens that fail for another of the three causes than the one in last
OtherCause ==
    {tk \in Presentable : Cause(tk, last.t) \notin {"", Cause(last.token, last.t)}}

\* C9 as stated: the error a decode_token function raises for a malformed
\* token, for a wrongly signed one and for an expired one are three
\* different errors.
C9_ThreeErrors ==
    (DecodeCall /\ Cause(last.token, last.t) # "") =>
        \A tk \in OtherCause : Raised(tk) # <<last.exc, last.detail>>

\* C9 amended: config.decode_token raises JWTError("Token has expired") for
\* an expired token and one and the same JWTError("Could not validate
\* token") for a malformed and for a wrongly signed token;
\* AuthService.decode_token raises AuthException with three different
\* details, which carry the library's message.
C9_ExpiredToldApart ==
    /\ (last.op = "decode_token" /\ Cause(last.token, last.t) # "") =>
           /\ last.exc = "JWTError"
           /\ Cause(last.token, last.t) = "expired" => last.detail = "Token has expired"
           /\ Cause(last.token, last.t) # "expired" =>
                  last.detail = "Could not validate token"
    /\ (last.op = "AuthService.decode_token" /\ Cause(last.token, last.t) # "") =>
           /\ last.exc = "AuthException"
           /\ \A tk \in OtherCause : Raised(tk) # <<last.exc, last.detail>>

\* C9 witness: config.decode_token has raised for a wrongly signed token
\* what it raises for a malformed one
C9_Witness ==
    /\ last.op = "decode_token"
    /\ Cause(last.token, last.t) = "signature"
    /\ <<last.exc, last.detail>> = Raised(Malformed)

\* C10: a successful register or login of email e answers with a bearer
\* token whose subject is e and with the id of the user whose email is e;
\* presented to the mandatory gate at an instant not past its exp, that
\* token resolves to the user with that id and email.
C10_TokenResolvesToItsUser ==
    /\ (last.op \in {"register", "login"} /\ last.status = 200) =>
           /\ last.token_type = "bearer"
           /\ last.token.claims.sub = last.username
           /\ last.email = last.username
           /\ last.uid = GetOrNone(users, last.username)
    /\ (last.op = "get_me" /\ resp.id # 0 /\ last.token = resp.token
                           /\ ~PastExp(last.token, last.t)) =>
           /\ last.status = 200
           /\ last.uid = resp.id
           /\ users[resp.id].email = resp.email
           /\ last.email = resp.email

\* C10 witness: after a sleep of one token lifetime, the mandatory gate has
\* resolved the second user from the token its login or registration
\* returned
C10_Witness ==
    /\ last.op = "get_me"
    /\ resp.id = 2
    /\ last.token = resp.token
    /\ last.status = 200
    /\ last.uid = 2
    /\ last.t >= Minutes(ACCESS_TOKEN_EXPIRE_MINUTES)
    /\ last.token.claims.iat < Timegm(Minutes(ACCESS_TOKEN_EXPIRE_MINUTES))

\* the rows of the store that carry the email
RowsOf(store, email) == {i \in 1..Len(store) : store[i].email = email}

\* the step is the handling of a request to op
Handles(op) == last = Idle /\ last'.op = op

\* C11: a registration (with a body the schema accepts) for an email that
\* a user already has is answered 400 "User with this email already
\* exists", without a token, and writes nothing: no user is created and the
\* existing row, its password hash included, stays as it is.
C11_DuplicateEmailRefused ==
    [][(Handles("register") /\ validate_password(last'.password)
                            /\ RowsOf(users, last'.username) # {}) =>
          /\ last'.status = 400
          /\ last'.detail = "User with this email already exists"
          /\ last'.exc = "BadRequestException"
          /\ last'.token = NoHeader
          /\ DOMAIN last'.body = {}
          /\ users' = users
          /\ resp' = resp]_vars

\* C11 witness: a registration for the email of an existing user, with
\* another password than that user's, has been refused
C11_Witness ==
    /\ last.op = "register"
    /\ last.status = 400
    /\ last.password = Secret456
    /\ Cardinality(RowsOf(users, last.username)) = 1
    /\ \A i \in RowsOf(users, last.username) :
           users[i].hashed_password = BcryptHash(Secret123)

\* an email no user has
UnknownEmail == "nobody@x.com"

\* C12: a login that fails is answered as the login with an unknown email
\* and the same password is: 401 "Incorrect email or password" with the
\* Bearer challenge, whether the email exists or not, and without a token.
C12_LoginRevealsNothing ==
    (last.op = "login" /\ last.status # 200) =>
        /\ Visible(last) = Visible(LoginOutcome(users, UnknownEmail, last.password))
        /\ last.status = 401
        /\ last.token = NoHeader
        /\ DOMAIN last.body = {}

\* C15: logout writes nothing on the server, and the token a caller has
\* logged out with still resolves to the same user on every later request
\* made while the token's expiry has not passed.
C15_LogoutRevokesNothing ==
    /\ [][Handles("logout") => UNCHANGED <<users, eventVars, clock>>]_vars
    /\ []((last.op = "get_me" /\ resp.logout /\ last.token = resp.token
                              /\ ~PastExp(last.token, last.t)) =>
              /\ last.status = 200
              /\ last.identity = resp.id
              /\ last.email = resp.email)

\* C15 witness: after a logout and a sleep of one token lifetime, at the
\* instant of the token's expiry, the mandatory gate has resolved the token
\* to its user
C15_Witness ==
    /\ last.op = "get_me"
    /\ resp.logout
    /\ last.token = resp.token
    /\ last.t = last.token.claims.exp * TicksPerSec
    /\ last.status = 200
    /\ last.identity = resp.id

\* the committed password changes of the user with the email
ChangesOf(email) == {c \in changed : users[c.uid].email = email}

ChangeHandled ==
    /\ last.op = "change_password"
    /\ last.identity # 0
    /\ validate_password(last.new_password)

\* C14: a password change whose old password does not verify against the
\* stored hash, or whose new password verifies against it, is answered 400
\* and leaves the stored hash as it was.
C14_BadChangeRefused ==
    (/\ ChangeHandled
     /\ \/ ~verify_password(last.password, last.before.hashed_password).ok
        \/ verify_password(last.new_password, last.before.hashed_password).ok) =>
        /\ last.status = 400
        /\ users[last.identity].hashed_password = last.before.hashed_password

\* the answer in last carries public columns of the row of user id only
PublicOnly(id) ==
    /\ DOMAIN last.body \cap {"password", "hashed_password"} = {}
    /\ \A f \in DOMAIN last.body \cap BaseUserFields :
           last.body[f] = UserObject(users, id)[f]
    /\ "access_token" \in DOMAIN last.body =>
           /\ last.body.access_token.claims.sub = users[id].email
           /\ DOMAIN last.body =
                  {"access_token", "token_type", "id", "email", "first_name", "last_name"}
    /\ "access_token" \notin DOMAIN last.body =>
           DOMAIN last.body = {"id", "email", "first_name", "last_name"}

C16_VerifyIffEqual ==
    /\ (last.op = "get_password_hash" /\ validate_password(last.password)) =>
           last.exc = ""
    /\ (last.op = "verify_password" /\ validate_password(last.password)) =>
           \A t \in Secrets :
               (validate_password(t) /\ last.before = get_password_hash(t).hash) =>
                   /\ last.exc = ""
                   /\ last.ok <=> last.password = t

\* C17: verify_password raises nothing and returns False when the stored
\* hash is no bcrypt hash.
C17_MalformedHashIsFalse ==
    (last.op = "verify_password" /\ last.before \in NotHashes) =>
        /\ last.exc = ""
        /\ ~last.ok

\* the call in last was handled for an authenticated user and an event
\* that exists
OnEvent(op) == last.op = op /\ last.identity # 0 /\ DOMAIN last.before # {}

C20_RegistrationChecked ==
    /\ OnEvent("register_for_event") =>
           LET u == last.identity
               e == last.event_id
               undo == unregister_from_event(events, registrations, e, u)
           IN  IF last.before.registered
                 THEN /\ last.status = 400
                      /\ registrations = last.before.registrations
                      /\ events[e].participants_count = last.before.participants_count
                 ELSE /\ last.status = 200
                      /\ registrations = last.before.registrations \cup {<<u, e>>}
                      /\ events[e].participants_count =
                             last.before.participants_count + 1
                      /\ undo.http.status = 200
                      /\ undo.registrations = last.before.registrations
                      /\ undo.events[e].participants_count =
                             last.before.participants_count
    /\ OnEvent("unregister_from_event") =>
           LET u == last.identity
               e == last.event_id
           IN  IF ~last.before.registered
                 THEN /\ last.status = 400
                      /\ registrations = last.before.registrations
                      /\ events[e].participants_count = last.before.participants_count
                 ELSE /\ last.status = 200
                      /\ registrations = last.before.registrations \ {<<u, e>>}
                      /\ events[e].participants_count =
                             last.before.participants_count - 1

\* C20 witness: a user who is registered for an event, as another user is,
\* has been refused a second registration
C20_Witness ==
    /\ OnEvent("register_for_event")
    /\ last.before.registered
    /\ last.status = 400
    /\ Cardinality(registrations) = 2
    /\ events[last.event_id].participants_count = 2

\* the events of the page in last
Listed ==
    IF last.op = "get_events"
      THEN {last.body.items[k] : k \in DOMAIN last.body.items}
      ELSE {last.body.items[k].event : k \in DOMAIN last.body.items}

\* C21: a page of GET /events/ or GET /events/with-status holds no event
\* whose date is before the day of the request, whatever the category,
\* city, search, sort, page and size parameters.
C21_NoPastEventListed ==
    (last.op \in {"get_events", "get_events_with_status"} /\ last.status = 200) =>
        \A item \in Listed : item.date >= Today(last.t)

\* C21 witness: a listing has returned an event while the table holds an
\* event of yesterday that it left out
C21_Witness ==
    /\ last.op \in {"get_events", "get_events_with_status"}
    /\ last.status = 200
    /\ Listed # {}
    /\ \E i \in 1..Len(events) :
          /\ events[i].live
          /\ events[i].date < Today(last.t)
          /\ \A item \in Listed : item.id # i

\* C23: PUT and DELETE /events/{id} by an authenticated user, with a body
\* the schema accepts, are answered 404 when the event does not exist and
\* 403 when the user is not its organizer, and in both cases the tables
\* of events, locations, categories, likes and registrations stay as they
\* were.
C23_OrganizerOnly ==
    [][(/\ last = Idle
        /\ last'.op \in {"update_event", "delete_event"}
        /\ last'.identity # 0
        /\ last'.op = "update_event" => ValidEventUpdate(last'.request, last'.t)) =>
          IF GetEventOrNone(events, last'.event_id) = 0
            THEN last'.status = 404 /\ UNCHANGED eventVars
            ELSE events[last'.event_id].organizer # last'.identity =>
                    last'.status = 403 /\ UNCHANGED eventVars]_vars

\* C23 witness: a user who is not the organizer has asked for another
\* title, location and categories of an event that has one location and
\* one category, both locations and categories exist, and was refused
C23_Witness ==
    /\ last.op = "update_event"
    /\ last.identity # 0
    /\ last.status = 403
    /\ DOMAIN last.request = {"title", "location_id", "category_ids"}
    /\ Len(locations) = 2
    /\ Len(categories) = 2
    /\ events[last.event_id].organizer # last.identity
    /\ events[last.event_id].location = 1
    /\ events[last.event_id].title = Jazz

\* C24: create_event by an authenticated user, with a body the schema
\* accepts, answers 200 and adds one event exactly when location_id names
\* a location and every id of category_ids names a category; otherwise it
\* answers 404 and adds no event.
C24_CreateIffAllExist ==
    [][(/\ last = Idle
        /\ last'.op = "create_event"
        /\ last'.identity # 0
        /\ validate_future_date(last'.request.date, last'.t)
        /\ Len(last'.request.category_ids) >= 1) =>
          IF /\ last'.request.location_id \in 1..Len(locations)
             /\ \A k \in 1..Len(last'.request.category_ids) :
                   last'.request.category_ids[k] \in 1..Len(categories)
            THEN last'.status = 200 /\ Len(events') = Len(events) + 1
            ELSE last'.status = 404 /\ UNCHANGED events]_vars

\* the token is one that config.create_access_token mints
MintedByConfig(token) ==
    /\ WellSigned(token)
    /\ token.claims.sub # NoSub
    /\ token.claims.exp # NoExp
    /\ token.claims.iss = ConfigIssAud.iss
    /\ token.claims.aud = ConfigIssAud.aud

\* C25: for a token minted by create_access_token, is_token_expired
\* returns False while the current time is not past the token's exp and
\* True once it is.
C25_ExpiredIffPastExp ==
    (last.op = "is_token_expired" /\ MintedByConfig(last.token)) =>
        (last.ok <=> PastExp(last.token, last.t))

\* the operations of the mutating endpoints
MutatingOps ==
    {"update_me", "change_password", "create_category", "create_location",
     "create_event", "update_event", "delete_event", "toggle_like",
     "register_for_event", "unregister_from_event"}

\* the credentials carry no valid identity at instant t: no token that is
\* signed with the key, not past its exp (to the second, as the gate
\* reads the clock) and made out to a user of the store
NoValidIdentity(token, t) ==
    ~(WellSigned(token) /\ ~PastExpSecond(token, t) /\ SubjectExists(token))

\* C22: a request to a mutating endpoint that carries no valid identity
\* is answered 401 or 403, and the tables of users, categories,
\* locations, events, likes and registrations stay as they were.
C22_NoIdentityNoChange ==
    [][(/\ last = Idle
        /\ last'.op \in MutatingOps
        /\ NoValidIdentity(last'.token, last'.t)) =>
          /\ last'.status \in {401, 403}
          /\ last'.identity = 0
          /\ UNCHANGED <<users, eventVars>>]_vars

\* C22 witness: the organizer's token has expired, and with it the
\* deletion of the organizer's event, which is liked, has been refused
C22_Witness ==
    /\ last.op = "delete_event"
    /\ last.status = 401
    /\ WellSigned(last.token)
    /\ SubjectExists(last.token)
    /\ PastExpSecond(last.token, last.t)
    /\ Len(events) >= 1
    /\ events[1].live
    /\ events[1].organizer = GetOrNone(users, last.token.claims.sub)
    /\ events[1].likes_count = 1

\* no coroutine is in the middle of a request
AllDone == \A i \in 1..MaxTasks : tasks[i].pc \in {"idle", "done"}

\* the coroutines that have handled a request
Handled == {i \in 1..MaxTasks : tasks[i].pc = "done"}

\* the counters of every event are the sizes of its relations
CountersRight ==
    \A e \in 1..Len(events) :
        events[e].live =>
            /\ events[e].likes_count = Cardinality({x \in likes : x[2] = e})
            /\ events[e].participants_count =
                   Cardinality({x \in registrations : x[2] = e})

\* C26: when like toggles of different users on one event have been
\* handled concurrently and all are over, likes_count of the event is the
\* number of users who like it.
C26_NoLikeLost ==
    (/\ AllDone
     /\ \A i \in Handled : tasks[i].op = "toggle_like"
     /\ \A i, j \in Handled : i # j => tasks[i].uid # tasks[j].uid) =>
        \A e \in 1..Len(events) :
            events[e].live =>
                events[e].likes_count = Cardinality({x \in likes : x[2] = e})

\* C27: when a like toggle and a register or unregister on one event have
\* been handled concurrently and both are over, participants_count is the
\* number of registered users and likes_count the number of likers.
C27_CountersIndependent ==
    (/\ AllDone
     /\ Cardinality(Handled) = 2
     /\ \E i, j \in Handled :
           /\ tasks[i].op = "toggle_like"
           /\ tasks[j].op \in {"register_for_event", "unregister_from_event"}) =>
        CountersRight

\* C28: when a password change and a profile update of one user have
\* been handled concurrently and both have succeeded, the stored hash
\* verifies the new password and not the old one, and the names are the
\* updated ones.
C28_ChangeNotUndone ==
    \A i, j \in Handled :
        (/\ AllDone
         /\ tasks[i].op = "change_password" /\ tasks[i].status = 200
         /\ tasks[j].op = "update_me" /\ tasks[j].status = 200
         /\ DOMAIN tasks[j].request # {}
         /\ tasks[i].uid = tasks[j].uid) =>
            LET stored == users[tasks[i].uid]
            IN  /\ verify_password(tasks[i].request.new_password,
                                   stored.hashed_password).ok
                /\ ~verify_password(tasks[i].request.old_password,
                                    stored.hashed_password).ok
                /\ stored.first_name = tasks[j].request.first_name

\* the user with the email was there before a coroutine registered it
Preexisting(email) ==
    \E r \in RowsOf(users, email) :
        \A k \in Handled :
            ~(tasks[k].op = "register" /\ tasks[k].status = 200 /\ tasks[k].uid = r)

\* C29: no two users have one email, and when two register requests for
\* one email that no user had have been handled concurrently, one was
\* answered with a token and the other 400 'User with this email already
\* exists' (both 400 when a user had the email before).
C29_OneRegisterWins ==
    /\ \A e \in Emails : Cardinality(RowsOf(users, e)) <= 1
    /\ \A i, j \in Handled :
          (/\ AllDone
           /\ i # j
           /\ tasks[i].op = "register" /\ tasks[j].op = "register"
           /\ tasks[i].request.email = tasks[j].request.email
           /\ tasks[i].status # 422 /\ tasks[j].status # 422) =>
              LET winners == {k \in {i, j} : tasks[k].status = 200}
              IN  /\ {tasks[i].status, tasks[j].status} \subseteq {200, 400}
                  /\ Cardinality(winners) =
                        IF Preexisting(tasks[i].request.email) THEN 0 ELSE 1
                  /\ \A k \in {i, j} \ winners :
                        tasks[k].detail = "User with this email already exists"

\* C30: no step removes a user or changes a user's email, and the token
\* a user got at register or login is resolved to that user by the
\* mandatory gate at every instant not past its exp, whatever profile
\* updates, password changes, logouts and event, category and location
\* operations came in between.
C30_TokenStable ==
    /\ [][/\ Len(users') >= Len(users)
           /\ \A i \in 1..Len(users) : users'[i].email = users[i].email]_vars
    /\ []((/\ last.op = "get_me"
            /\ resp.id # 0
            /\ last.token = resp.token
            /\ ~PastExp(last.token, last.t)) =>
              /\ last.status = 200
              /\ last.identity = resp.id
              /\ users[last.identity].email = last.token.claims.sub)

\* C30 witness: the gate has resolved a token at the instant of its expiry
\* to its user, after the user changed name and password, logged out,
\* and created and deleted an event
C30_Witness ==
    /\ last.op = "get_me"
    /\ last.status = 200
    /\ resp.id # 0
    /\ last.token = resp.token
    /\ last.t = last.token.claims.exp * TicksPerSec
    /\ last.identity = resp.id
    /\ resp.logout
    /\ users[resp.id].first_name = "Bob"
    /\ verify_password(Secret456, users[resp.id].hashed_password).ok
    /\ Len(events) >= 1
    /\ ~events[1].live
    /\ Len(categories) = 1

====
